---- MODULE Spec2Model ----
(***************************************************************************)
(* CulinaraAI: the query pipeline of MCPOrchestrator.process_query.        *)
(*                                                                         *)
(* corpus retrieval (RecipeRAGEngine.search_recipes) -> preference-aware   *)
(* re-ranking (_process_rag_pipeline) -> web fallback                      *)
(* (_process_web_pipeline) -> _combine_results -> mcp_process_query.       *)
(*                                                                         *)
(* Text is modelled at word level: a text is a sequence of words, a word   *)
(* is a string that keeps its letter case, and Python's `term in text` is  *)
(* Contains(term, text).  Scores are integers in hundredths (0.35 = 35).   *)
(***************************************************************************)
EXTENDS Integers, Sequences, FiniteSets, TLC

(***************************************************************************)
(* Bounds of the model.                                                    *)
(***************************************************************************)
\* largest number of documents in the corpus index
MaxCorpus == 4

\* the longest query, in tokens, given to the term extractor on its own
MaxQueryLen == 3

\* the largest max_retries given to generate_embedding
RetryCap == 4

(***************************************************************************)
(* Generic helpers.                                                        *)
(***************************************************************************)
Min(a, b) == IF a <= b THEN a ELSE b

Max(a, b) == IF a >= b THEN a ELSE b

Range(s) == {s[i] : i \in 1..Len(s)}

\* s[:n]
Take(s, n) == SubSeq(s, 1, Min(n, Len(s)))

\* the sequence s with every element evaluated (a list, as opposed to a generator)
Strict(s) == SelectSeq(s, LAMBDA x : TRUE)

\* ' '.join(list of texts), as one sequence of words
Flatten(ss) ==
    LET joined[i \in 0..Len(ss)] == IF i = 0 THEN <<>> ELSE joined[i - 1] \o ss[i]
    IN joined[Len(ss)]

\* the subsequence of s at the positions whose flag is TRUE
SelectSeqBy(s, keep) ==
    LET kept[i \in 0..Len(s)] ==
            IF i = 0 THEN <<>>
            ELSE IF keep[i] THEN Append(kept[i - 1], s[i]) ELSE kept[i - 1]
    IN kept[Len(s)]

(***************************************************************************)
(* Words: letter case and substrings.                                      *)
(***************************************************************************)
\* str.lower() on the capitalised words the model's inputs use
LowerMap ==
    [w \in {"Lamb", "Curry", "Prawn", "Rogan", "Josh", "Easy", "Vegetable", "Two",
            "Best", "Recipes", "Chicken", "Tofu", "Recipe", "Snacks", "Vegan",
            "Garlic", "Paneer", "Top", "Ideas", "For", "Stew", "What", "Should",
            "Cook", "Salad", "Bowl", "Noodle", "And", "More", "Quick", "Butter",
            "Our", "Favorite", "Dishes", "Tikka", "Masala", "Video", "Slow", "Cooked",
            "Shoulder", "Fried", "Rice", "Cauliflower", "Chicken,"} |->
        CASE w = "Lamb" -> "lamb" [] w = "Curry" -> "curry" [] w = "Prawn" -> "prawn"
          [] w = "Rogan" -> "rogan" [] w = "Josh" -> "josh" [] w = "Easy" -> "easy"
          [] w = "Vegetable" -> "vegetable" [] w = "Two" -> "two" [] w = "Best" -> "best"
          [] w = "Recipes" -> "recipes" [] w = "Chicken" -> "chicken" [] w = "Tofu" -> "tofu"
          [] w = "Recipe" -> "recipe" [] w = "Snacks" -> "snacks" [] w = "Vegan" -> "vegan"
          [] w = "Garlic" -> "garlic" [] w = "Paneer" -> "paneer" [] w = "Top" -> "top"
          [] w = "Ideas" -> "ideas" [] w = "For" -> "for" [] w = "Stew" -> "stew"
          [] w = "What" -> "what" [] w = "Should" -> "should" [] w = "Cook" -> "cook"
          [] w = "Salad" -> "salad" [] w = "Bowl" -> "bowl" [] w = "Noodle" -> "noodle"
          [] w = "And" -> "and" [] w = "More" -> "more" [] w = "Quick" -> "quick"
          [] w = "Butter" -> "butter" [] w = "Our" -> "our" [] w = "Favorite" -> "favorite"
          [] w = "Dishes" -> "dishes" [] w = "Tikka" -> "tikka" [] w = "Masala" -> "masala"
          [] w = "Video" -> "video" [] w = "Slow" -> "slow" [] w = "Cooked" -> "cooked"
          [] w = "Shoulder" -> "shoulder" [] w = "Fried" -> "fried" [] w = "Rice" -> "rice"
          [] w = "Cauliflower" -> "cauliflower" [] w = "Chicken," -> "chicken,"]

LowerWord(w) == IF w \in DOMAIN LowerMap THEN LowerMap[w] ELSE w

\* text.lower()
Lower(text) == Strict([i \in 1..Len(text) |-> LowerWord(text[i])])

\* the pairs <<t, w>> of distinct words of the model's vocabulary with t a substring of w
ProperSubstrings ==
    {<<"recipe", "recipes">>, <<"curry", "curry?">>, <<"egg", "eggplant">>,
     <<"meat", "meatball">>, <<"oat", "goat">>, <<"rice", "licorice">>,
     <<"top", "stovetop">>, <<"ham", "champagne">>, <<"app", "apple">>,
     <<"more", "s'more">>, <<"Recipe", "Recipes">>,
     <<"4", "3-4">>, <<"4", "4-6">>, <<"2", "21">>,
     <<":", "recipes:">>, <<"recipe", "recipes:">>, <<"recipes", "recipes:">>}

\* t in w, for single words
Sub(t, w) == t = w \/ <<t, w>> \in ProperSubstrings

\* `term in text`: term is a sequence of words (one word, or a phrase such as
\* 'low carb'); a one-word term matches inside any word, a phrase matches
\* consecutive words.
Contains(term, text) ==
    \E i \in 1..(Len(text) - Len(term) + 1) :
        IF Len(term) = 1 THEN Sub(term[1], text[i])
        ELSE \A j \in 1..Len(term) : term[j] = text[i + j - 1]

\* any(term in text for term in terms)
ContainsAny(terms, text) == \E t \in terms : Contains(t, text)

\* a list of one-word terms
W(words) == {<<w>> : w \in words}

\* word.rstrip('?')
RStripQ(w) ==
    CASE w = "curry?" -> "curry" [] w = "stew?" -> "stew" [] w = "chicken?" -> "chicken" [] OTHER -> w

(***************************************************************************)
(* The corpus: documents of the index (metadata of RecipeRAGEngine).       *)
(***************************************************************************)
DocIds == 1..6

\* metadata of the indexed documents; `servings` is facts['servings'] as text
Doc(id) ==
    CASE id = 1 -> [title |-> <<"Lamb", "Curry">>, category |-> <<"dinner">>, cuisine |-> <<"indian">>,
                    ingredients |-> << <<"lamb">>, <<"onion">>, <<"garlic">> >>,
                    steps |-> 4, servings |-> <<"4">>, url |-> "db/lamb-curry"]
      [] id = 2 -> [title |-> <<"Prawn", "Curry">>, category |-> <<"dinner">>, cuisine |-> <<"indian">>,
                    ingredients |-> << <<"prawn">>, <<"coconut", "milk">>, <<"rice">> >>,
                    steps |-> 6, servings |-> <<"2">>, url |-> "db/prawn-curry"]
      [] id = 3 -> [title |-> <<"Rogan", "Josh">>, category |-> <<>>, cuisine |-> <<"indian">>,
                    ingredients |-> << <<"lamb">>, <<"yogurt">>, <<"onion">> >>,
                    steps |-> 9, servings |-> <<"4-6">>, url |-> "db/rogan-josh"]
      [] id = 4 -> [title |-> <<"Easy", "Vegetable", "Curry", "For", "Two">>, category |-> <<>>, cuisine |-> <<>>,
                    ingredients |-> << <<"potato">>, <<"carrot">>, <<"vegetable", "oil">> >>,
                    steps |-> 3, servings |-> <<>>, url |-> "db/vegetable-curry"]
      [] id = 5 -> [title |-> <<"Best", "Curry", "Recipes">>, category |-> <<>>, cuisine |-> <<>>,
                    ingredients |-> <<>>,
                    steps |-> 0, servings |-> <<>>, url |-> "db/best-curry-recipes"]
      [] id = 6 -> [title |-> <<"Chicken", "Curry">>, category |-> <<"dinner">>, cuisine |-> <<>>,
                    ingredients |-> << <<"chicken">>, <<"tomato">>, <<"butter">> >>,
                    steps |-> 5, servings |-> <<"4">>, url |-> "db/chicken-curry"]

\* raw cosine similarities the embedding model can give a document (hundredths)
SimList == <<-10, 28, 95>>

Sims == Range(SimList)

\* the index over document set S in id order, with the similarities sim
SeqOfCorpus(S, sim) ==
    LET ids == SelectSeq([d \in DocIds |-> d], LAMBDA d : d \in S)
    IN Strict([i \in 1..Len(ids) |-> [doc |-> ids[i], sim |-> sim[ids[i]]]])

\* the corpora of the model: up to MaxCorpus documents, any similarity each
Corpora ==
    UNION {{SeqOfCorpus(S, sim) : sim \in [S -> Sims]} :
           S \in {T \in SUBSET DocIds : Cardinality(T) <= MaxCorpus}}

(***************************************************************************)
(* MCPOrchestrator._check_dietary_compatibility                            *)
(***************************************************************************)
\* diet.lower() on the diet names of the preference form
LowerDiet(d) ==
    CASE d = "Vegan" -> "vegan" [] d = "Vegetarian" -> "vegetarian"
      [] d = "Non-Vegetarian" -> "non-vegetarian" [] d = "Low Carb" -> "low carb"
      [] d = "Keto" -> "keto" [] d = "Gluten Free" -> "gluten free"
      [] d = "Dairy Free" -> "dairy free" [] d = "Paleo" -> "paleo"
      [] d = "No Preference" -> "no preference" [] OTHER -> d

non_vegan_ingredients ==
    W({"chicken", "beef", "pork", "fish", "lamb", "turkey", "bacon", "sausage",
       "meat", "egg", "milk", "cheese", "butter", "cream", "yogurt", "honey",
       "whey", "gelatin", "lard"})

non_vegetarian_ingredients ==
    W({"chicken", "beef", "pork", "fish", "lamb", "turkey", "bacon",
       "sausage", "meat", "seafood", "prawn", "shrimp", "salmon", "tuna",
       "duck", "venison", "steak", "meatball", "ham"})

high_carb == W({"rice", "pasta", "bread", "potato", "noodle", "flour", "sugar"})

very_high_carb == W({"pasta", "bread", "noodle", "flour"})

low_carb_markers == {<<"keto">>, <<"low", "carb">>, <<"cauliflower">>}

gluten_ingredients == W({"wheat", "flour", "pasta", "bread", "barley", "rye", "noodle"})

dairy == W({"milk", "cheese", "butter", "cream", "yogurt", "whey"})

non_paleo ==
    W({"grain", "rice", "wheat", "pasta", "bread", "oat", "bean", "lentil",
       "peanut", "soy", "tofu", "dairy", "milk", "cheese", "sugar", "corn"})

\* the meat test on the text as given, without lower()
has_meat_as_given(title, ingredients) ==
    \E t \in non_vegetarian_ingredients : Contains(t, ingredients) \/ Contains(t, title)

\* has_meat
has_meat(title, ingredients) ==
    \E t \in non_vegetarian_ingredients : Contains(t, Lower(ingredients)) \/ Contains(t, Lower(title))

\* the standard low-carb check applied also next to a non-vegetarian preference
low_carb_rule_strict(title, ingredients, lenient) ==
    ~(/\ \E c \in high_carb : Contains(c, ingredients) \/ Contains(c, title)
      /\ ~ContainsAny(low_carb_markers, title))

\* the keto / low carb branch (lines 480-499): lenient when has_non_veg and has_low_carb
low_carb_rule_ok(title, ingredients, lenient) ==
    IF lenient
    THEN ~(/\ \E c \in very_high_carb : Contains(c, Lower(ingredients)) \/ Contains(c, Lower(title))
           /\ ~has_meat(title, ingredients)
           /\ ~ContainsAny(low_carb_markers, Lower(title)))
    ELSE ~(/\ \E c \in high_carb : Contains(c, ingredients) \/ Contains(c, title)
           /\ ~ContainsAny(low_carb_markers, title))

\* one iteration of `for diet in diet_preferences`: FALSE iff it returns False
diet_rule_ok(diet, title, ingredients, diets) ==
    LET diet_lower == LowerDiet(diet)
        has_non_veg == \E i \in 1..Len(diets) : LowerDiet(diets[i]) \in {"non-vegetarian", "non vegetarian"}
        has_low_carb == \E i \in 1..Len(diets) : LowerDiet(diets[i]) \in {"keto", "low carb"}
    IN CASE diet_lower = "vegan" ->
              ~\E t \in non_vegan_ingredients : Contains(t, ingredients) \/ Contains(t, title)
         [] diet_lower = "vegetarian" ->
              ~\E t \in non_vegetarian_ingredients : Contains(t, ingredients) \/ Contains(t, title)
         [] diet_lower \in {"non-vegetarian", "non vegetarian"} ->
              has_meat(title, ingredients)
         [] diet_lower \in {"keto", "low carb"} ->
              low_carb_rule_ok(title, ingredients, has_non_veg /\ has_low_carb)
         [] diet_lower = "gluten free" ->
              ~(/\ ContainsAny(gluten_ingredients, ingredients)
                /\ ~Contains(<<"gluten", "free">>, title)
                /\ ~Contains(<<"gluten-free">>, ingredients))
         [] diet_lower = "dairy free" ->
              ~(/\ ContainsAny(dairy, ingredients)
                /\ ~Contains(<<"dairy", "free">>, title)
                /\ ~Contains(<<"dairy-free">>, ingredients))
         [] diet_lower = "paleo" ->
              ~(/\ \E t \in non_paleo : Contains(t, Lower(ingredients)) \/ Contains(t, Lower(title))
                /\ ~Contains(<<"paleo">>, Lower(title)))
         [] OTHER -> TRUE

\* the check of the first listed diet alone
check_first_diet_only(title, ingredients, diets) ==
    diets # <<>> => diet_rule_ok(diets[1], title, ingredients, diets)

\* _check_dietary_compatibility(title, ingredients, diet_preferences)
check_dietary_compatibility(title, ingredients, diets) ==
    \A i \in 1..Len(diets) : diet_rule_ok(diets[i], title, ingredients, diets)

(***************************************************************************)
(* MCPOrchestrator._is_valid_recipe                                        *)
(***************************************************************************)
invalid_titles ==
    {<<"news">>, <<"trends">>, <<"subscribe">>, <<"newsletter">>, <<"sign", "up">>,
     <<"download">>, <<"app">>, <<"contact">>, <<"about">>, <<"privacy">>}

non_food_terms ==
    {<<"subscribe">>, <<"newsletter">>, <<"sign", "up">>, <<"download">>, <<"app">>,
     <<"social">>, <<"follow">>, <<"facebook">>, <<"instagram">>, <<"twitter">>,
     <<"email">>, <<"contact">>, <<"privacy">>, <<"terms">>, <<"policy">>,
     <<"advertisement">>, <<"sponsored">>, <<"affiliate">>}

real_food_indicators ==
    W({"chicken", "beef", "pork", "fish", "rice", "pasta",
       "tomato", "onion", "garlic", "salt", "pepper", "oil",
       "flour", "sugar", "butter", "milk", "egg", "cheese",
       "vegetable", "fruit", "herb", "spice", "water",
       "paneer", "tofu", "lentil", "bean", "chickpea",
       "potato", "carrot", "broccoli", "spinach", "kale",
       "quinoa", "oat", "almond", "cashew", "coconut"})

\* _is_valid_recipe(recipe)
is_valid_recipe(recipe) ==
    LET title == Lower(recipe.title)
        ingredients_text == Lower(Flatten(recipe.ingredients))
        non_food_count == Cardinality({t \in non_food_terms : Contains(t, ingredients_text)})
    IN /\ ~ContainsAny(invalid_titles, title)
       /\ Len(recipe.ingredients) # 0
       /\ ~(10 * non_food_count > 3 * Len(recipe.ingredients))
       /\ ContainsAny(real_food_indicators, ingredients_text)

(***************************************************************************)
(* The inputs of the model.                                                *)
(***************************************************************************)
QueryList ==
    << <<"lamb", "curry">>, <<"Vegetable", "curry?">>, <<"What", "should", "i", "cook">> >>

Queries == Range(QueryList)

NoPreferences == [given |-> FALSE, diets |-> <<>>, skill |-> "", servings |-> 0, goal |-> ""]

PrefsList ==
    <<NoPreferences,
      [given |-> TRUE, diets |-> <<"Vegan">>, skill |-> "Beginner", servings |-> 2, goal |-> "Energy"],
      [given |-> TRUE, diets |-> <<"Non-Vegetarian", "Low Carb">>, skill |-> "Advanced", servings |-> 4, goal |-> ""],
      [given |-> TRUE, diets |-> <<>>, skill |-> "", servings |-> 2, goal |-> ""]>>

PrefsSet == Range(PrefsList)

(***************************************************************************)
(* MCPOrchestrator.process_query: the search query sent to the corpus.     *)
(***************************************************************************)
\* defaults of process_query as called by mcp_process_query
top_k == 10

similarity_threshold == 35

\* min_score of the expanded search made for an explicit protein
protein_min_score == 10

\* min_score default of RecipeRAGEngine.search_recipes
default_min_score == 0

\* the words of diet.lower()
DietWords(d) ==
    CASE d = "Low Carb" -> <<"low", "carb">> [] d = "Gluten Free" -> <<"gluten", "free">>
      [] d = "Dairy Free" -> <<"dairy", "free">> [] d = "No Preference" -> <<"no", "preference">>
      [] OTHER -> <<LowerDiet(d)>>

specific_dishes ==
    W({"paneer", "chicken", "tofu", "salmon", "lentil", "pasta",
       "beef", "pork", "shrimp", "tikka", "curry", "biryani",
       "salad", "soup", "rice", "noodles",
       "lobster", "crab", "fish", "tuna", "cod", "tilapia",
       "broccoli", "spinach", "kale", "mushroom", "potato",
       "lamb", "duck", "turkey", "egg", "prawn", "scallop",
       "steak", "burger", "sandwich", "wrap", "bowl",
       "cake", "cookie", "pie", "bread", "muffin"}) \cup {<<"stir", "fry">>}

generic_query_indicators ==
    {<<"what", "should", "i">>, <<"recommend">>, <<"suggest">>, <<"what", "can", "i">>,
     <<"give", "me">>, <<"show", "me">>, <<"find", "me">>, <<"what", "dishes">>,
     <<"what", "do", "you", "recommend">>, <<"any", "ideas">>, <<"something">>}

skill_modifiers(skill) ==
    CASE skill = "Beginner" -> <<"easy", "quick">>
      [] skill = "Intermediate" -> <<"homemade">>
      [] skill = "Advanced" -> <<"gourmet", "restaurant-style">>
      [] OTHER -> <<"easy">>

dietary_search_terms(dietary) ==
    CASE dietary = "Vegetarian" -> <<"vegetarian", "dinner">>
      [] dietary = "Vegan" -> <<"vegan", "meal">>
      [] dietary = "Non-Vegetarian" -> <<"meat", "dinner">>
      [] dietary = "Gluten Free" -> <<"gluten", "free", "meal">>
      [] dietary = "Dairy Free" -> <<"dairy", "free", "dinner">>
      [] dietary = "Low Carb" -> <<"low", "carb", "keto", "meal">>
      [] dietary = "Paleo" -> <<"paleo", "whole30">>
      [] dietary = "No Preference" -> <<"dinner">>
      [] OTHER -> <<"dinner", "recipe">>

goal_modifiers(goal) ==
    CASE goal = "Energy" -> <<"high", "protein">>
      [] goal = "Weight Loss" -> <<"healthy", "low", "calorie">>
      [] goal = "Muscle Gain" -> <<"high", "protein">>
      [] goal = "General Health" -> <<"nutritious", "balanced">>
      [] OTHER -> <<>>

\* `preferences and preferences.diets`
HasDiets(prefs) == prefs.given /\ prefs.diets # <<>>

\* search_query of process_query (lines 100-184)
build_search_query(query, prefs) ==
    LET query_lower == Lower(query)
        has_specific_dish == ContainsAny(specific_dishes, query_lower)
        is_generic_query == ContainsAny(generic_query_indicators, query_lower)
    IN IF has_specific_dish \/ ~is_generic_query
       THEN LET skill_part == IF prefs.given /\ prefs.skill = "Beginner" THEN <<"easy">>
                              ELSE IF prefs.given /\ prefs.skill = "Advanced" THEN <<"gourmet">>
                              ELSE <<>>
                diet_part == IF HasDiets(prefs)
                                /\ prefs.diets[1] # "No Preference"
                                /\ (prefs.diets[1] # "Non-Vegetarian" \/ ~has_specific_dish)
                             THEN DietWords(prefs.diets[1])
                             ELSE <<>>
            IN skill_part \o diet_part \o query
       ELSE IF HasDiets(prefs)
       THEN goal_modifiers(prefs.goal)
            \o skill_modifiers(IF prefs.skill # "" THEN prefs.skill ELSE "Intermediate")
            \o dietary_search_terms(prefs.diets[1])
       ELSE query

(***************************************************************************)
(* RecipeRAGEngine: term extraction, keyword boost, search.                *)
(***************************************************************************)
common_ingredients ==
    {"chicken", "beef", "pork", "lamb", "fish", "salmon", "tuna", "shrimp", "prawn",
     "paneer", "tofu", "tempeh", "seitan",
     "cheese", "mozzarella", "cheddar", "feta", "ricotta",
     "mushroom", "eggplant", "zucchini", "tomato", "potato", "onion", "garlic",
     "rice", "pasta", "noodle", "bread"}

stop_words == {"how", "to", "make", "recipe", "for", "a", "an", "the", "with", "and", "or", "of", "in"}

\* [word.rstrip('?') for word in query_lower.split() if ... not in stop_words and len(...) > 2]
all_terms_of(query) ==
    LET ql == Lower(query)
        keep == [i \in 1..Len(ql) |-> RStripQ(ql[i]) \notin stop_words /\ Len(RStripQ(ql[i])) > 2]
    IN SelectSeqBy([i \in 1..Len(ql) |-> RStripQ(ql[i])], keep)

\* _extract_key_terms: (all_terms, ingredient_terms)
extract_key_terms(query) ==
    LET all == all_terms_of(query)
    IN [all_terms |-> all,
        ingredient_terms |-> SelectSeq(all, LAMBDA t : t \in common_ingredients)]

ingredient_conflicts(ing) ==
    CASE ing = "chicken" -> W({"tofu", "paneer", "vegetarian", "vegan"})
      [] ing = "paneer" -> W({"chicken", "beef", "pork"})
      [] ing = "tofu" -> W({"chicken", "beef", "pork"})
      [] OTHER -> {}

\* number of positions of terms whose term occurs in text
CountMatches(terms, text) == Cardinality({i \in 1..Len(terms) : Contains(<<terms[i]>>, text)})

\* _check_keyword_match: (boost, ok)
check_keyword_match(all_terms, ingredient_terms, text) ==
    LET t == Lower(text)
    IN IF \E i \in 1..Len(ingredient_terms) : ContainsAny(ingredient_conflicts(ingredient_terms[i]), t)
       THEN [boost |-> -30, ok |-> FALSE]
       ELSE IF \E i \in 1..Len(ingredient_terms) : ~Contains(<<ingredient_terms[i]>>, t)
       THEN [boost |-> -20, ok |-> FALSE]
       ELSE [boost |-> Min(15, CountMatches(all_terms, t) * 3), ok |-> TRUE]

\* f"{title} {category} {cuisine}" + ' ' + ' '.join(ingredients)
recipe_text(meta) == meta.title \o meta.category \o meta.cuisine \o Flatten(meta.ingredients)

\* the clamp without its upper bound
ClampScoreNoCeiling(x) == Max(0, x)

\* max(0.0, min(1.0, similarities[i] + keyword_boost))
ClampScore(x) == Max(0, Min(100, x))

\* the result dict search_recipes makes of one index entry (lines 401-414, 446-462)
search_hit(terms, entry) ==
    LET km == check_keyword_match(terms.all_terms, terms.ingredient_terms, recipe_text(Doc(entry.doc)))
    IN [id |-> entry.doc, score |-> ClampScore(entry.sim + km.boost), keyword_match |-> km.ok]

\* np.argsort(scores)[::-1] restricted to the index set idx: descending score;
\* equal scores come out in descending index order (ascending stable sort, reversed)
ArgsortDesc(score, idx) ==
    LET picked[k \in 0..Cardinality(idx)] ==
            IF k = 0 THEN <<>>
            ELSE LET prev == picked[k - 1]
                     rest == idx \ Range(prev)
                     best == CHOOSE i \in rest :
                                \A j \in rest : score[i] > score[j] \/ (score[i] = score[j] /\ i >= j)
                 IN Append(prev, best)
    IN picked[Cardinality(idx)]

\* the search queries and preferences process_query passes on for the requests of the model
Requests ==
    Strict([r \in 1..(Len(QueryList) * Len(PrefsList)) |->
        LET q == QueryList[((r - 1) \div Len(PrefsList)) + 1]
            p == PrefsList[((r - 1) % Len(PrefsList)) + 1]
        IN [query |-> build_search_query(q, p), prefs |-> p]])

\* search_hit of one search query for every document and similarity of the model
hits_of_terms(query, terms) ==
    [query |-> query,
     hits |-> Strict([d \in DocIds |->
                 Strict([s \in 1..Len(SimList) |->
                     search_hit(terms, [doc |-> d, sim |-> SimList[s]])])])]

\* search_hit for every request, document and similarity of the model, as a table
SearchHitMemo ==
    Strict([r \in 1..Len(Requests) |->
        hits_of_terms(Requests[r].query, extract_key_terms(Requests[r].query))])

\* the entry of a table for a search query and an index entry, or the value computed
hit_in(memo, query, entry) ==
    LET known == {k \in (1..Len(memo)) \X (1..Len(SimList)) :
                    memo[k[1]].query = query /\ SimList[k[2]] = entry.sim}
    IN IF known # {} /\ entry.doc \in DocIds
       THEN LET k == CHOOSE k \in known : TRUE IN memo[k[1]].hits[entry.doc][k[2]]
       ELSE search_hit(extract_key_terms(query), entry)

\* search_hit(_extract_key_terms(query), entry)
search_hit_of(query, entry) == hit_in(SearchHitMemo, query, entry)

\* the score filter, the argsort and the cut to top_k of search_recipes (lines 431-444)
ranked_hits(hits, top_k_, min_score) ==
    LET boosted == Strict([i \in 1..Len(hits) |-> hits[i].score])
        valid == {i \in 1..Len(hits) : boosted[i] >= min_score}
        order == Take(ArgsortDesc(boosted, valid), top_k_)
    IN Strict([k \in 1..Len(order) |-> hits[order[k]]])

\* RecipeRAGEngine.search_recipes(query, top_k, min_score): the returned list
search_recipes(corpus, query, top_k_, min_score) ==
    ranked_hits(Strict([i \in 1..Len(corpus) |-> search_hit_of(query, corpus[i])]),
                top_k_, min_score)

(***************************************************************************)
(* MCPOrchestrator._process_rag_pipeline                                   *)
(***************************************************************************)
specific_proteins ==
    <<"lamb", "beef", "chicken", "pork", "fish", "salmon", "tuna",
      "shrimp", "prawn", "lobster", "crab", "turkey", "duck",
      "tofu", "paneer", "tempeh", "seitan">>

\* requested_protein: the first listed protein that occurs in the query, "" for None
requested_protein_of(query) ==
    LET ql == Lower(query)
        hits == {i \in 1..Len(specific_proteins) : Contains(<<specific_proteins[i]>>, ql)}
    IN IF hits = {} THEN ""
       ELSE specific_proteins[CHOOSE i \in hits : \A j \in hits : i <= j]

\* words that end in a digit (what \d+ can match at the end of a word)
NumberWords == {"2", "4", "21", "56", "10", "14", "40+", "672", "3-4", "4-6"}

\* re.search(r'\d+\s+(vegan|vegetarian|paleo|keto)?\s*(snacks|recipes|dishes)', title_lower)
has_number_list(title_lower) ==
    \E i \in 1..Len(title_lower) :
        /\ title_lower[i] \in NumberWords \ {"40+"}
        /\ \/ /\ i + 1 <= Len(title_lower)
              /\ \E n \in {"snacks", "recipes", "dishes"} : Sub(n, title_lower[i + 1])
           \/ /\ i + 2 <= Len(title_lower)
              /\ title_lower[i + 1] \in {"vegan", "vegetarian", "paleo", "keto"}
              /\ \E n \in {"snacks", "recipes", "dishes"} : Sub(n, title_lower[i + 2])

\* title_lower.endswith(' recipes') or title_lower.endswith('recipes |')
ends_with_recipes(title_lower) ==
    LET n == Len(title_lower)
    IN \/ n >= 2 /\ title_lower[n] = "recipes"
       \/ n >= 2 /\ title_lower[n] = "|" /\ title_lower[n - 1] = "recipes"

rag_collection_keywords ==
    {<<"best">>, <<"top">>, <<"ideas">>, <<"collection">>,
     <<"easy", "recipes">>, <<"batch", "cooking", "recipes">>, <<"dinner", "recipes">>,
     <<"lunch", "recipes">>, <<"breakfast", "recipes">>, <<"snack", "recipes">>}

\* is_collection of the corpus path (lines 249-264)
rag_is_collection(title) ==
    LET title_lower == Lower(title)
    IN \/ ContainsAny(rag_collection_keywords, title_lower)
       \/ has_number_list(title_lower)
       \/ ends_with_recipes(title_lower)

\* dietary_match of a corpus candidate (lines 279-293); TRUE when no diet is requested
\* the dietary gate left out
rag_dietary_match_skipped(prefs, meta) == TRUE

\* the dietary gate of the loop (lines 279-293): FALSE skips the candidate
rag_dietary_match(prefs, meta) ==
    IF HasDiets(prefs)
    THEN check_dietary_compatibility(Lower(meta.title), Lower(Flatten(meta.ingredients)), prefs.diets)
    ELSE TRUE

\* the score after the servings boost (lines 295-322)
servings_boost(prefs, meta, score) ==
    IF prefs.given /\ prefs.servings = 2
    THEN IF \/ Contains(<<"for", "two">>, Lower(meta.title))
            \/ Contains(<<"for", "2">>, Lower(meta.title))
            \/ Contains(<<"2">>, meta.servings)
            \/ Contains(<<"two">>, meta.servings)
         THEN Min(100, score + 5) ELSE score
    ELSE IF prefs.given /\ prefs.servings = 4
    THEN IF \/ Contains(<<"4">>, meta.servings)
            \/ Contains(<<"four">>, meta.servings)
            \/ Contains(<<"3-4">>, meta.servings)
            \/ Contains(<<"4-6">>, meta.servings)
         THEN Min(100, score + 5) ELSE score
    ELSE score

\* the score after the skill boosts (lines 324-343)
skill_boost(prefs, meta, score) ==
    LET t == Lower(meta.title)
    IN IF prefs.given /\ prefs.skill = "Beginner"
       THEN LET s1 == IF ContainsAny(W({"easy", "simple", "quick", "minute"}), t)
                      THEN Min(100, score + 3) ELSE score
            IN IF meta.steps > 0 /\ meta.steps <= 5 THEN Min(100, s1 + 2) ELSE s1
       ELSE IF prefs.given /\ prefs.skill = "Advanced"
       THEN LET s1 == IF ContainsAny(W({"gourmet", "classic", "traditional"}), t)
                      THEN Min(100, score + 3) ELSE score
            IN IF meta.steps > 8 THEN Min(100, s1 + 2) ELSE s1
       ELSE score

\* requested_protein in title or in ingredients of a document
has_protein(protein, meta) ==
    \/ Contains(<<protein>>, Lower(meta.title))
    \/ Contains(<<protein>>, Lower(Flatten(meta.ingredients)))

\* the score after the explicit-protein boost (lines 345-362)
protein_boost(protein, meta, score) ==
    IF protein = "" THEN score
    ELSE IF Contains(<<protein>>, Lower(meta.title)) THEN Min(100, score + 30)
    ELSE IF Contains(<<protein>>, Lower(Flatten(meta.ingredients))) THEN Min(100, score + 15)
    ELSE score

\* the final score of a scored candidate
final_score(prefs, protein, result) ==
    protein_boost(protein, Doc(result.id),
                  skill_boost(prefs, Doc(result.id),
                              servings_boost(prefs, Doc(result.id), result.score)))

\* the acceptance test (line 368)
accepts(score, has_keyword, threshold) == score >= threshold

\* what the loop over rag_results does with one candidate
candidate_outcome(prefs, protein, threshold, result) ==
    LET meta == Doc(result.id)
    IN IF rag_is_collection(meta.title) THEN "collection"
       ELSE IF ~rag_dietary_match(prefs, meta) THEN "diet"
       ELSE IF accepts(final_score(prefs, protein, result), result.keyword_match, threshold)
       THEN "accepted" ELSE "rejected"

\* one pass of the loop over rag_results: the candidate with its score as the
\* loop leaves it (result['score'] = score unless the candidate was skipped)
judged_candidate(prefs, protein, threshold, result) ==
    LET o == candidate_outcome(prefs, protein, threshold, result)
    IN [result |-> IF o \in {"accepted", "rejected"}
                   THEN [result EXCEPT !.score = final_score(prefs, protein, result)]
                   ELSE result,
        outcome |-> o]

\* judged_candidate of one request for every hit of its table
judged_of_request(prefs, protein, hits) ==
    [prefs |-> prefs, protein |-> protein, hits |-> hits,
     judged |-> Strict([d \in DocIds |->
                   Strict([s \in 1..Len(SimList) |->
                       judged_candidate(prefs, protein, similarity_threshold, hits[d][s])])])]

\* judged_candidate at the default threshold, computed once for the requests of the model
JudgeMemo ==
    Strict([r \in 1..Len(Requests) |->
        judged_of_request(Requests[r].prefs, requested_protein_of(Requests[r].query),
                          SearchHitMemo[r].hits)])

\* the entry of a table for a candidate, or the value computed
judged_in(memo, prefs, protein, threshold, result) ==
    LET known == {k \in (1..Len(memo)) \X (1..Len(SimList)) :
                    /\ threshold = similarity_threshold
                    /\ memo[k[1]].prefs = prefs
                    /\ memo[k[1]].protein = protein
                    /\ result.id \in DocIds
                    /\ memo[k[1]].hits[result.id][k[2]] = result}
    IN IF known # {}
       THEN LET k == CHOOSE k \in known : TRUE IN memo[k[1]].judged[result.id][k[2]]
       ELSE judged_candidate(prefs, protein, threshold, result)

\* judged_candidate(prefs, protein, threshold, result)
judged_of(prefs, protein, threshold, result) ==
    judged_in(JudgeMemo, prefs, protein, threshold, result)

\* a descending sort that puts a later element before the equal ones it follows
SortDescTiesReversed(s) ==
    LET sorted[n \in 0..Len(s)] ==
            IF n = 0 THEN <<>>
            ELSE LET rest == sorted[n - 1]
                     x == s[n]
                     k == Cardinality({i \in 1..Len(rest) : rest[i].score > x.score})
                 IN SubSeq(rest, 1, k) \o <<x>> \o SubSeq(rest, k + 1, Len(rest))
    IN sorted[Len(s)]

\* list.sort(key=score, reverse=True): descending, equal scores keep their order
StableSortDesc(s) ==
    LET sorted[n \in 0..Len(s)] ==
            IF n = 0 THEN <<>>
            ELSE LET rest == sorted[n - 1]
                     x == s[n]
                     k == Cardinality({i \in 1..Len(rest) : rest[i].score >= x.score})
                 IN SubSeq(rest, 1, k) \o <<x>> \o SubSeq(rest, k + 1, Len(rest))
    IN sorted[Len(s)]

\* the text-generation providers of a call: each is "ok", "raises" or "none" (not configured)
LLMWorlds ==
    {[groq |-> "ok", gemini |-> "ok"], [groq |-> "raises", gemini |-> "ok"],
     [groq |-> "raises", gemini |-> "raises"], [groq |-> "none", gemini |-> "none"]}

\* the providers as a call of _generate_facts finds them; without a call none is observed
llm_worlds_of(called) == IF called THEN LLMWorlds ELSE {[groq |-> "none", gemini |-> "none"]}

\* no provider answers: every configured one raises, or none is configured
llm_failed(llm) == llm.groq # "ok" /\ llm.gemini # "ok"

\* _generate_facts(context, query): Groq first, then Gemini, [] when none answered
generate_facts(llm) ==
    IF llm.groq = "ok" THEN <<"Did you know">>
    ELSE IF llm.gemini = "ok" THEN <<"Did you know">>
    ELSE <<>>


\* _process_rag_pipeline(query, top_k, similarity_threshold, preferences) up to the
\* facts, with the local lists it leaves behind
\* found_requested_protein (lines 381-388)
found_requested_protein(protein, valid) ==
    \E i \in 1..Len(valid) : has_protein(protein, Doc(valid[i].id))

\* the protein check left out
rag_has_results_unchecked(protein, valid) == valid # <<>>

\* rag_has_results (lines 378-403)
rag_has_results(protein, valid) ==
    valid # <<>> /\ (protein = "" \/ found_requested_protein(protein, valid))

\* the limit to three left out
filtered_results_uncapped(has, valid) == IF has THEN valid ELSE <<>>

\* filtered_results (lines 392-403): valid_results[:3], or [] without results
filtered_results(has, valid) == IF has THEN Take(valid, 3) ELSE <<>>

\* the dict _process_rag_pipeline returns (lines 378-439), with the local lists
rag_return(protein, judged, valid, collections) ==
    [has_results |-> rag_has_results(protein, valid),
     results |-> filtered_results(rag_has_results(protein, valid), valid),
     summary |-> IF valid # <<>> THEN "" ELSE "None",
     rag_results |-> Strict([i \in 1..Len(judged) |-> judged[i].result]),
     outcome |-> Strict([i \in 1..Len(judged) |-> judged[i].outcome]),
     valid_results |-> valid,
     collection_pages |-> collections,
     requested_protein |-> protein]

\* valid_results after the loop and the sort (lines 366-376)
valid_results_of(judged) ==
    StableSortDesc(SelectSeqBy([i \in 1..Len(judged) |-> judged[i].result],
                               [i \in 1..Len(judged) |-> judged[i].outcome = "accepted"]))

\* collection_pages after the loop (lines 266-277)
collection_pages_of(judged) ==
    SelectSeqBy([i \in 1..Len(judged) |->
                    [title |-> Doc(judged[i].result.id).title, url |-> Doc(judged[i].result.id).url]],
                [i \in 1..Len(judged) |->
                    judged[i].outcome = "collection" /\ Doc(judged[i].result.id).url # ""])

\* what follows the loop over rag_results (lines 374-439)
rag_judged(protein, judged) ==
    rag_return(protein, judged, valid_results_of(judged), collection_pages_of(judged))

\* the loop over rag_results and what follows it (lines 236-439)
rag_loop(prefs, protein, threshold, found) ==
    rag_judged(protein,
               Strict([i \in 1..Len(found) |-> judged_of(prefs, protein, threshold, found[i])]))

\* the search of _process_rag_pipeline (lines 226-233) and what follows it
rag_for_protein(corpus, query, k, threshold, prefs, protein) ==
    rag_loop(prefs, protein, threshold,
             IF protein # ""
             THEN search_recipes(corpus, query, k * 5, protein_min_score)
             ELSE search_recipes(corpus, query, k, default_min_score))

\* _process_rag_pipeline(query, top_k, similarity_threshold, preferences) over an index
process_rag_pipeline(corpus, query, k, threshold, prefs) ==
    rag_for_protein(corpus, query, k, threshold, prefs, requested_protein_of(query))

(***************************************************************************)
(* The web: pages behind the URLs the search provider can return.          *)
(***************************************************************************)
CouldNotFetch == <<"Could not fetch recipe">>

\* the dict scrape_recipe_from_url returns when fetching or parsing failed
failed_recipe(url) ==
    [title |-> CouldNotFetch, ingredients |-> <<>>, steps |-> 0, description |-> "", source |-> url]

NoItems == <<>>

\* what is behind a URL: `recipe` is what parse_recipe extracts from the HTML
\* (parsed FALSE: it returns None), `items` the itemListElement entries or
\* recipe-card links of the page, each with name, description and url
Page(url) ==
    CASE url = "w1" -> [parsed |-> TRUE, title |-> <<"Garlic", "Lamb", "Curry", "Recipe">>,
                        ingredients |-> << <<"lamb">>, <<"garlic">>, <<"onion">> >>, steps |-> 5, items |-> NoItems]
      [] url = "w2" -> [parsed |-> TRUE, title |-> <<"Butter", "Chicken", "Curry">>,
                        ingredients |-> << <<"chicken">>, <<"butter">>, <<"cream">> >>, steps |-> 6, items |-> NoItems]
      [] url = "w3" -> [parsed |-> TRUE, title |-> <<"21", "Easy", "Vegan", "Snacks">>,
                        ingredients |-> <<>>, steps |-> 1,
                        items |-> << [name |-> <<"Chicken", "Salad", "Bowl">>, description |-> "creamy", url |-> "#slide-1"],
                                     [name |-> <<"Quick", "Tofu", "Bowl">>, description |-> "crispy", url |-> "#slide-2"],
                                     [name |-> <<"Best", "Vegan", "Ideas">>, description |-> "more", url |-> "#slide-3"] >>]
      [] url = "w4" -> [parsed |-> TRUE, title |-> <<"Best", "Lamb", "Recipes">>,
                        ingredients |-> <<>>, steps |-> 1,
                        items |-> << [name |-> <<"Rogan", "Josh">>, description |-> "", url |-> "c1"],
                                     [name |-> <<>>, description |-> "", url |-> "c2"],
                                     [name |-> <<>>, description |-> "", url |-> "c3"] >>]
      [] url = "w5" -> [parsed |-> TRUE, title |-> <<"Quick", "Tofu", "Noodle", "Bowl">>,
                        ingredients |-> << <<"tofu">>, <<"noodle">>, <<"soy", "sauce">> >>, steps |-> 4, items |-> NoItems]
      [] url = "w6" -> [parsed |-> TRUE, title |-> <<"Paneer">>,
                        ingredients |-> <<>>, steps |-> 1, items |-> NoItems]
      [] url = "w7" -> [parsed |-> TRUE, title |-> <<"Vegetable", "Stew">>,
                        ingredients |-> << <<"carrot">>, <<"potato">> >>, steps |-> 3, items |-> NoItems]
      [] url = "c1" -> [parsed |-> TRUE, title |-> <<"Lamb", "Rogan", "Josh">>,
                        ingredients |-> << <<"lamb">>, <<"yogurt">>, <<"onion">> >>, steps |-> 7, items |-> NoItems]
      [] url = "c2" -> [parsed |-> TRUE, title |-> <<"Top", "Lamb", "Ideas">>,
                        ingredients |-> << <<"lamb">> >>, steps |-> 1,
                        items |-> << [name |-> <<>>, description |-> "", url |-> "g1"] >>]
      [] url = "c3" -> [parsed |-> TRUE, title |-> <<"Chicken", "Noodle", "Salad">>,
                        ingredients |-> << <<"chicken">>, <<"noodle">> >>, steps |-> 2, items |-> NoItems]
      [] url = "c4" -> [parsed |-> TRUE, title |-> <<"Our", "10", "Favorite", "Lamb", "Dishes">>,
                        ingredients |-> << <<"lamb">>, <<"onion">> >>, steps |-> 2,
                        items |-> << [name |-> <<>>, description |-> "", url |-> "g1"] >>]
      [] url = "w9" -> [parsed |-> TRUE, title |-> <<"Lamb", "Recipes">>,
                        ingredients |-> <<>>, steps |-> 1,
                        items |-> << [name |-> <<>>, description |-> "", url |-> "c4"],
                                     [name |-> <<>>, description |-> "", url |-> "c1"] >>]
      [] url = "w10" -> [parsed |-> TRUE, title |-> <<"Chicken", "Tikka", "Masala", "Video">>,
                         ingredients |-> <<>>, steps |-> 2, items |-> NoItems]
      [] url = "w11" -> [parsed |-> TRUE, title |-> <<"Lamb", "Ideas">>,
                         ingredients |-> <<>>, steps |-> 1,
                         items |-> << [name |-> <<>>, description |-> "", url |-> "c1"],
                                      [name |-> <<>>, description |-> "", url |-> "c3"],
                                      [name |-> <<>>, description |-> "", url |-> "g1"],
                                      [name |-> <<>>, description |-> "", url |-> "w1"],
                                      [name |-> <<>>, description |-> "", url |-> "w7"],
                                      [name |-> <<>>, description |-> "", url |-> "w5"] >>]
      [] url = "g1" -> [parsed |-> TRUE, title |-> <<"Slow", "Cooked", "Lamb", "Shoulder">>,
                        ingredients |-> << <<"lamb">>, <<"garlic">> >>, steps |-> 3, items |-> NoItems]
      [] OTHER -> [parsed |-> FALSE, title |-> <<>>, ingredients |-> <<>>, steps |-> 0, items |-> NoItems]

\* WebRecipeScraper.scrape_recipe_from_url(url): down is the set of URLs whose fetch fails
scrape_recipe_from_url(url, down) ==
    IF url \notin down /\ Page(url).parsed
    THEN [title |-> Page(url).title, ingredients |-> Page(url).ingredients,
          steps |-> Page(url).steps, description |-> "", source |-> url]
    ELSE failed_recipe(url)

\* scrape_recipes_parallel(urls): one result per URL, a failed fetch gives the
\* failure dict in its place and the others are unaffected
scrape_recipes_parallel(urls, down) ==
    Strict([i \in 1..Len(urls) |-> scrape_recipe_from_url(urls[i], down)])

\* is_rich_itemlist
is_rich_itemlist(items) ==
    Cardinality({i \in 1..Min(3, Len(items)) : items[i].name # <<>> /\ items[i].description # ""}) >= 2

\* is_fragment_url on the URLs of the model
is_fragment_url(url) == url \in {"#slide-1", "#slide-2", "#slide-3"}

\* extract_recipe_from_item_list_entry
extract_recipe_from_item_list_entry(item, collection_url) ==
    [title |-> item.name, ingredients |-> <<>>, steps |-> 0,
     description |-> item.description, source |-> collection_url]

\* the links extract_recipe_links_from_collection_page takes from the entries
links_of(items, max_links) ==
    LET linked == SelectSeq(Take(items, max_links),
                            LAMBDA it : it.url # "" /\ ~is_fragment_url(it.url))
    IN Strict([i \in 1..Len(linked) |-> linked[i].url])

\* the pages requested for a link, and every page its entries link to as well
link_fetches_following(url, depth, down) ==
    <<[url |-> url, depth |-> depth]>>
    \o (IF url \in down THEN <<>>
        ELSE LET links == links_of(Page(url).items, 5)
             IN Strict([i \in 1..Len(links) |-> [url |-> links[i], depth |-> depth + 1]]))

\* the pages scrape_recipe_via_mcp(url) requests: the page of the link, nothing below it
link_fetches(url, depth, down) == <<[url |-> url, depth |-> depth]>>

\* the return of scrape_recipes_from_collection for a page with these entries, named
\* entries and links, with what it fetched (the page itself at depth 0, its links at 1)
collection_result(url, items, named, recipe_links, down) ==
    IF items # NoItems /\ is_rich_itemlist(items) /\ named # <<>>
    THEN [type |-> "rich-itemlist",
          recipes |-> Strict([i \in 1..Len(named) |-> extract_recipe_from_item_list_entry(named[i], url)]),
          fetches |-> <<[url |-> url, depth |-> 0]>>]
    ELSE IF recipe_links = <<>>
    THEN [type |-> "unknown", recipes |-> <<>>, fetches |-> <<[url |-> url, depth |-> 0]>>]
    ELSE [type |-> "multi-page",
          recipes |-> SelectSeq(Strict([i \in 1..Len(recipe_links) |->
                                    scrape_recipe_from_url(recipe_links[i], down)]),
                                LAMBDA r : r.title # CouldNotFetch),
          fetches |-> <<[url |-> url, depth |-> 0]>>
                      \o Flatten([i \in 1..Len(recipe_links) |-> link_fetches(recipe_links[i], 1, down)])]

\* the entries of a collection page as extract_recipe_links_from_collection_page sees them
collection_entries(url, items, max_recipes, down) ==
    collection_result(url, items,
                      SelectSeq(Take(items, max_recipes), LAMBDA it : it.name # <<>>),
                      Take(links_of(items, max_recipes), max_recipes), down)

\* scrape_recipes_from_collection(url, max_recipes): type, recipes and the pages it fetched
scrape_recipes_from_collection(url, max_recipes, down) ==
    collection_entries(url, IF url \in down THEN NoItems ELSE Page(url).items, max_recipes, down)

(***************************************************************************)
(* MCPOrchestrator._process_web_pipeline                                   *)
(***************************************************************************)
\* len(text) in characters: the words and the single spaces between them
CharLen(text) ==
    LET chars[i \in 0..Len(text)] ==
            IF i = 0 THEN 0
            ELSE chars[i - 1] + Len(text[i]) + (IF i > 1 THEN 1 ELSE 0)
    IN chars[Len(text)]

web_collection_keywords ==
    {<<"best">>, <<"top">>, <<"ideas">>, <<"collection">>, <<"recipes", "|">>,
     <<"non-vegetarian", "recipes">>, <<"vegetarian", "recipes">>, <<"vegan", "recipes">>,
     <<"non", "veg", "recipes">>, <<"veg", "recipes">>, <<"easy", "recipes">>,
     <<"10", "best">>, <<"14", "best">>, <<"9", "best">>, <<"20", "best">>, <<"40+">>, <<"672">>,
     <<"dinner", "recipes">>, <<"lunch", "recipes">>, <<"breakfast", "recipes">>,
     <<"keto", "recipes">>, <<"paleo", "recipes">>, <<"low", "carb", "recipes">>, <<"low-carb", "recipes">>,
     <<"gluten", "free", "recipes">>, <<"gluten-free", "recipes">>,
     <<"dairy", "free", "recipes">>, <<"dairy-free", "recipes">>,
     <<"free", "paleo">>, <<"favorite", "paleo">>, <<"healthy", "vegan">>,
     <<"mouthwatering">>, <<"crave-worthy">>, <<"add", "to", "your">>, <<"weekly", "menu">>,
     <<"recipes", "for">>, <<"recipe", "ideas">>, <<"meal", "ideas">>, <<"dinner", "ideas">>,
     <<"healthy", "recipes">>, <<"quick", "recipes">>, <<"simple", "recipes">>,
     <<"paneer", "recipes">>, <<"chicken", "recipes">>, <<"beef", "recipes">>, <<"fish", "recipes">>,
     <<"pasta", "recipes">>, <<"salad", "recipes">>, <<"soup", "recipes">>, <<"curry", "recipes">>}

\* words of the form \w+-\w+
HyphenWords == {"low-carb", "gluten-free", "dairy-free", "non-vegetarian", "stir-fry", "crave-worthy"}

\* words of the form \d+[\+]?
PureNumberWords == {"2", "4", "21", "56", "10", "14", "40+", "672", "9", "20"}

\* re.search(r'\brecipes\s*$', title)
re_ends_recipes(title) == title # <<>> /\ title[Len(title)] = "recipes"

\* re.search(r'\w+-\w+\s+recipes\b', title)
re_hyphen_recipes(title) ==
    \E i \in 1..(Len(title) - 1) : title[i] \in HyphenWords /\ title[i + 1] \in {"recipes", "recipes:"}

\* re.search(r'\d+[\+]?\s+(low carb|keto|paleo|vegan|recipes?|of our|favorite|healthy|easy|best|paneer|chicken)', title)
re_number_listicle(title) ==
    \E i \in 1..(Len(title) - 1) :
        /\ title[i] \in NumberWords
        /\ \/ \E w \in {"keto", "paleo", "vegan", "recipe", "favorite", "healthy", "easy", "best", "paneer", "chicken"} :
                 Sub(w, title[i + 1])
           \/ i + 2 <= Len(title) /\ <<title[i + 1], title[i + 2]>> \in {<<"low", "carb">>, <<"of", "our">>}

\* re.match(r'^\d+[\+]?\s+', title)
re_starts_with_number(title) == Len(title) >= 2 /\ title[1] \in PureNumberWords

\* ':' in title and any(word in title for word in ['&', 'and more', 'more'])
colon_list(title) ==
    Contains(<<":">>, title) /\ ContainsAny({<<"&">>, <<"and", "more">>, <<"more">>}, title)

\* is_collection of the loop over scraped_recipes (lines 686-726), the short-title test included
web_is_collection(recipe_title) ==
    LET title == Lower(recipe_title)
    IN \/ CharLen(title) < 10
       \/ ContainsAny(web_collection_keywords, title)
       \/ re_ends_recipes(title)
       \/ re_hyphen_recipes(title)
       \/ re_number_listicle(title)
       \/ re_starts_with_number(title)
       \/ colon_list(title)

\* is_collection_title (lines 751-782)
is_collection_title(recipe_title) ==
    LET title_lower == Lower(recipe_title)
    IN \/ CharLen(title_lower) < 10
       \/ ContainsAny(web_collection_keywords, title_lower)
       \/ re_ends_recipes(title_lower)
       \/ re_hyphen_recipes(title_lower)
       \/ re_starts_with_number(title_lower)
       \/ colon_list(title_lower)

(***************************************************************************)
(* clean_collection_pages.is_collection_page                               *)
(***************************************************************************)
\* url.lower() on the URLs of the model
LowerUrl(url) == IF url = "Site/Ideas/Dinner" THEN "site/ideas/dinner" ELSE url

\* any(pattern in url_lower for pattern in collection_url_patterns)
has_collection_url_pattern(url_lower) ==
    url_lower \in {"site/collections/snacks", "site/ideas/dinner"}

page_collection_keywords ==
    {<<"collection">>, <<"roundup">>, <<"easy", "recipes">>, <<"quick", "recipes">>,
     <<"dinner", "recipes">>, <<"lunch", "recipes">>, <<"breakfast", "recipes">>,
     <<"vegetarian", "recipes">>, <<"vegan", "recipes">>, <<"batch", "cooking", "recipes">>,
     <<"30-minute">>, <<"minute", "meal">>}

\* 'best ' in title_lower or 'top ' in title_lower: the word is followed by a space
has_best_or_top(title_lower) ==
    \E i \in 1..(Len(title_lower) - 1) : \E k \in {"best", "top"} : Sub(k, title_lower[i])

\* re.search(r'\d+\s+(easy|quick|best|top|vegan|vegetarian)?\s*(recipes|dishes|meals|snacks)', title_lower)
page_has_number_list(title_lower) ==
    \E i \in 1..Len(title_lower) :
        /\ title_lower[i] \in NumberWords \ {"40+"}
        /\ \/ /\ i + 1 <= Len(title_lower)
              /\ \E n \in {"recipes", "dishes", "meals", "snacks"} : Sub(n, title_lower[i + 1])
           \/ /\ i + 2 <= Len(title_lower)
              /\ title_lower[i + 1] \in {"easy", "quick", "best", "top", "vegan", "vegetarian"}
              /\ \E n \in {"recipes", "dishes", "meals", "snacks"} : Sub(n, title_lower[i + 2])

\* is_collection_page(title, url)
is_collection_page(title, url) ==
    IF title = <<>> THEN FALSE
    ELSE \/ has_collection_url_pattern(LowerUrl(url))
         \/ Len(title) >= 2 /\ Lower(title)[Len(title)] \in {"recipes", "dishes"}
         \/ ContainsAny(page_collection_keywords, Lower(title))
         \/ has_best_or_top(Lower(title))
         \/ page_has_number_list(Lower(title))

\* whether the loop over extracted_recipes appends this recipe (lines 802-828)
expansion_accepts(recipe, collection_type) ==
    /\ recipe.title # CouldNotFetch
    /\ ~is_collection_title(recipe.title)
    /\ IF collection_type = "rich-itemlist"
       THEN recipe.title # <<>> /\ recipe.description # ""
       ELSE is_valid_recipe(recipe)

\* the loop over extracted_recipes[:3]: appends to actual, breaks at 3 after an append
expand_recipes(extracted, collection_type, actual) ==
    LET after[i \in 0..Len(extracted)] ==
            IF i = 0 THEN [actual |-> actual, broke |-> FALSE]
            ELSE LET before == after[i - 1]
                 IN IF before.broke \/ ~expansion_accepts(extracted[i], collection_type)
                    THEN before
                    ELSE [actual |-> Append(before.actual, extracted[i]),
                          broke |-> Len(before.actual) + 1 >= 3]
    IN after[Len(extracted)].actual

\* the loop over collection_page_urls[:2] without its break
expansion_done_unbroken(before, res, actual) ==
    [recipes |-> actual, fetches |-> before.fetches \o res.fetches, broke |-> FALSE]

\* the state of the loop over collection_page_urls[:2] after a collection was processed
expansion_done(before, res, actual) ==
    [recipes |-> actual, fetches |-> before.fetches \o res.fetches,
     broke |-> res.recipes # <<>> /\ Len(actual) >= 3]

\* one pass of the loop over collection_page_urls[:2] on the result of a collection
expansion_step(before, res) ==
    IF before.broke THEN before
    ELSE expansion_done(before, res, expand_recipes(Take(res.recipes, 3), res.type, before.recipes))

\* the loop over collection_page_urls[:2]: the recipes collected and the pages fetched
expand_collections(col_urls, actual_recipes, down) ==
    LET after[i \in 0..Len(col_urls)] ==
            IF i = 0 THEN [recipes |-> actual_recipes, fetches |-> <<>>, broke |-> FALSE]
            ELSE expansion_step(after[i - 1], scrape_recipes_from_collection(col_urls[i], 5, down))
    IN after[Len(col_urls)]

\* `if recipe_data and recipe_data.get("title") != "Could not fetch recipe"` kept for all
scraped_ok_unfiltered(pages) == pages

\* the scraped pages without the failed ones (lines 650-657)
scraped_ok(pages) == SelectSeq(pages, LAMBDA r : r.title # CouldNotFetch)

\* the scraped pages the loop appends to actual_recipes (lines 728-730)
direct_recipes(scraped) == SelectSeq(scraped, LAMBDA r : ~web_is_collection(r.title))

\* the scraped pages the loop records as collection pages (lines 731-739)
collection_recipes(scraped) == SelectSeq(scraped, LAMBDA r : web_is_collection(r.title))

\* collection_page_urls
collection_page_urls_of(colls) == Strict([i \in 1..Len(colls) |-> colls[i].source])

\* web_has_results left as the search set it
web_has_results_of_search(searched, scraped, actual_recipes) == searched

\* web_has_results at the return (lines 631, 846-848, 875-877)
web_has_results(searched, scraped, actual_recipes) ==
    searched /\ scraped # <<>> /\ actual_recipes # <<>>

\* the dict _process_web_pipeline returns (lines 883-891), with the local lists
web_return(searched, urls, down, scraped, colls, expanded) ==
    [has_results |-> web_has_results(searched, scraped, expanded.recipes),
     summary |-> IF ~searched THEN "None"
                 ELSE IF scraped = <<>> THEN "links-not-extracted"
                 ELSE IF expanded.recipes = <<>> THEN "collections-only"
                 ELSE "",
     collection_pages |-> IF searched /\ expanded.recipes # <<>>
                          THEN [i \in 1..Len(colls) |-> [title |-> colls[i].title, url |-> colls[i].source]]
                          ELSE <<>>,
     recipes |-> IF searched THEN Take(expanded.recipes, 3) ELSE <<>>,
     urls_to_scrape |-> urls,
     down |-> down,
     scraped_recipes |-> scraped,
     collections |-> colls,
     actual_recipes |-> expanded.recipes,
     fetches |-> [i \in 1..Len(urls) |-> [url |-> urls[i], depth |-> 0]] \o expanded.fetches]

\* the classification of the scraped pages and the expansion of the collections
web_classified(searched, urls, down, scraped, colls) ==
    web_return(searched, urls, down, scraped, colls,
               expand_collections(Take(collection_page_urls_of(colls), 2), direct_recipes(scraped), down))

\* the parallel scrape of urls_to_scrape (lines 636-660) and what follows it
web_scraped(searched, urls, down, scraped) ==
    web_classified(searched, urls, down, scraped, collection_recipes(scraped))

\* what follows the web search: nothing is scraped when it failed or found nothing
web_searched(searched, results, down) ==
    web_scraped(searched, IF searched THEN Take(results, 5) ELSE <<>>, down,
                IF searched THEN scraped_ok(scrape_recipes_parallel(Take(results, 5), down)) ELSE <<>>)

\* _process_web_pipeline(query, preferences) up to the facts, in a world where the search provider
\* answers hits (success FALSE: it raised) and the URLs in down cannot be fetched
process_web_pipeline(success, hits, down) ==
    web_searched(success /\ Take(hits, 5) # <<>>, Take(hits, 5), down)

(***************************************************************************)
(* MCPOrchestrator._combine_results and main.mcp_process_query             *)
(***************************************************************************)
NoResultsMessage == "couldn't find any recipes: different keywords, more specific, check spelling"

\* the web_result process_query builds when it skips the web search (line 196)
skipped_web_result ==
    [has_results |-> FALSE, summary |-> "None", facts |-> <<>>,
     collection_pages |-> <<>>, recipes |-> <<>>]

\* the combiner without its no-results branch
primary_source_without_none(rag, web) == IF rag.has_results THEN "database" ELSE "internet"

\* primary_source of _combine_results (lines 1073-1086)
primary_source(rag, web) ==
    IF rag.has_results THEN "database"
    ELSE IF web.has_results THEN "internet" ELSE "none"

\* _combine_results(query, rag_result, web_result)
combine_results(rag, web) ==
    [primary_source |-> primary_source(rag, web),
     message |-> IF rag.has_results THEN rag.summary
                 ELSE IF web.has_results
                 THEN (IF web.summary \in {"", "None"} THEN "I found some recipes online." ELSE web.summary)
                 ELSE NoResultsMessage,
     recipes |-> IF rag.has_results THEN rag.results ELSE <<>>,
     facts |-> IF rag.has_results THEN rag.facts
               ELSE IF web.has_results THEN web.facts ELSE <<>>,
     has_database_results |-> rag.has_results,
     has_web_results |-> web.has_results,
     collection_pages |-> web.collection_pages,
     rag_results |-> rag.results,
     web_recipes |-> web.recipes]

\* the card mcp_process_query makes of a corpus result
database_card(r) ==
    [title |-> Doc(r.id).title, ingredients |-> Doc(r.id).ingredients,
     source |-> Doc(r.id).url, score |-> r.score]

\* the card mcp_process_query makes of a scraped recipe
web_card(recipe) ==
    [title |-> recipe.title, ingredients |-> recipe.ingredients,
     source |-> recipe.source, score |-> 95]

\* mcp_process_query: the response built from the orchestrator's result
mcp_response(result) ==
    [response |-> result.message,
     recipes |-> IF result.has_database_results
                 THEN [i \in 1..Len(result.rag_results) |-> database_card(result.rag_results[i])]
                 ELSE IF result.has_web_results
                 THEN [i \in 1..Len(result.web_recipes) |-> web_card(result.web_recipes[i])]
                 ELSE <<>>,
     facts |-> result.facts,
     collection_pages |-> result.collection_pages]

(***************************************************************************)
(* The web worlds of the model.                                           *)
(***************************************************************************)
\* the answers of the search provider
HitLists ==
    {<<>>, <<"w1", "w2", "w5", "w7", "w3">>, <<"w3", "w4">>, <<"w4", "w2">>,
     <<"w6", "w8">>, <<"w2", "w1">>, <<"c1", "w4">>, <<"c4", "w9">>, <<"w10", "w7">>,
     <<"w1", "w11", "w9">>}

\* the sets of URLs that time out
DownSets == {{}, {"w1", "w2", "w5"}, {"w4"}, {"c1", "w3"}}

\* the URLs the pipeline can request for an answer of the search provider: the hits and
\* the links of their entries
reachable_urls(hits) ==
    Range(hits) \cup UNION {Range(links_of(Page(hits[i]).items, 5)) : i \in 1..Len(hits)}

\* the worlds of the model: the search provider raises, or it answers and some of the
\* URLs the pipeline can request time out
WebWorlds ==
    {[success |-> FALSE, hits |-> <<>>, down |-> {}]}
    \cup {w \in [success : {TRUE}, hits : HitLists, down : DownSets] :
             w.down = {} \/ w.down \cap reachable_urls(w.hits) # {}}

\* the runs of the web pipeline over the worlds of the model
WebRuns == {process_web_pipeline(w.success, w.hits, w.down) : w \in WebWorlds}

\* the runs of the corpus path of one request over the indexes of the model
rag_runs_of_request(request) ==
    [request |-> request,
     runs |-> {process_rag_pipeline(corpus, request.query, top_k, similarity_threshold,
                                    request.prefs) : corpus \in Corpora}]

\* the runs of the corpus path over the indexes of the model, per request
RagRuns == Strict([r \in 1..Len(Requests) |-> rag_runs_of_request(Requests[r])])

\* the runs a table holds for a request
runs_in(table, request) ==
    UNION {table[r].runs : r \in {r \in 1..Len(table) : table[r].request = request}}

\* what _process_rag_pipeline(query, top_k, similarity_threshold, prefs) can return
rag_runs_of(query, prefs) == runs_in(RagRuns, [query |-> query, prefs |-> prefs])

(***************************************************************************)
(* State and actions.                                                      *)
(***************************************************************************)
VARIABLES
    pc,            \* where chat / mcp_process_query / process_query stands
    user_query,    \* the user's query
    preferences,   \* the preferences of the request
    search_query,  \* the search query process_query built for the corpus
    rag_locals,    \* the lists _process_rag_pipeline worked on, until the caller moves on
    rag_result,    \* the dict returned by _process_rag_pipeline
    web_locals,    \* the lists _process_web_pipeline worked on, until process_query returns
    web_result,    \* the dict returned by _process_web_pipeline (or built when it is skipped)
    answer,        \* the dict returned by process_query
    response,      \* the dict returned by mcp_process_query, or the HTTP error of chat
    web_searches,  \* calls of the web search provider
    page_fetches,  \* pages requested from the fetch provider
    unit           \* a function of the program called on its own: its input and its calls

vars == <<pc, user_query, preferences, search_query, rag_locals, rag_result, web_locals, web_result,
          answer, response, web_searches, page_fetches, unit>>

\* no function is called on its own
NoUnit == [title |-> <<>>, url |-> "", calls |-> <<>>]

\* the fallback taken whatever the corpus path returned
needs_web_fallback_always(rag) == TRUE

\* `if not rag_result["has_results"]` of process_query (line 191)
needs_web_fallback(rag) == ~rag.has_results

NoLLM == [groq |-> "none", gemini |-> "none"]

NoLocals ==
    [rag_results |-> <<>>, outcome |-> <<>>, valid_results |-> <<>>,
     collection_pages |-> <<>>, requested_protein |-> "", embedding |-> "", llm |-> NoLLM]

NoWebLocals ==
    [urls_to_scrape |-> <<>>, down |-> {}, scraped_recipes |-> <<>>, collections |-> <<>>,
     actual_recipes |-> <<>>, fetches |-> <<>>, llm |-> NoLLM]

NoRagResult == [has_results |-> FALSE, results |-> <<>>, summary |-> "None", facts |-> <<>>]

NoAnswer == combine_results(NoRagResult, skipped_web_result)

\* a failure of text generation that takes the recipes of the run with it
rag_result_of_fatal(run, llm) ==
    IF run.valid_results # <<>> /\ llm_failed(llm)
    THEN NoRagResult
    ELSE [has_results |-> run.has_results, results |-> run.results, summary |-> run.summary,
          facts |-> IF run.valid_results # <<>> THEN generate_facts(llm) ELSE <<>>]

\* the dict _process_rag_pipeline returns: facts are generated `if valid_results:`, and
\* whatever _generate_facts raises is caught (lines 405-439)
rag_result_of(run, llm) ==
    [has_results |-> run.has_results, results |-> run.results, summary |-> run.summary,
     facts |-> IF run.valid_results # <<>> THEN generate_facts(llm) ELSE <<>>]

\* the locals of _process_rag_pipeline at its return
rag_locals_of(run, llm) ==
    [rag_results |-> run.rag_results, outcome |-> run.outcome,
     valid_results |-> run.valid_results, collection_pages |-> run.collection_pages,
     requested_protein |-> run.requested_protein, embedding |-> "ok", llm |-> llm]

\* the dict _process_web_pipeline returns: facts are generated when recipes survived, and
\* whatever _generate_facts raises is caught (lines 849-891)
web_result_of(run, llm) ==
    [has_results |-> run.has_results, summary |-> run.summary,
     facts |-> IF run.recipes # <<>> THEN generate_facts(llm) ELSE <<>>,
     collection_pages |-> run.collection_pages, recipes |-> run.recipes]

\* the locals of _process_web_pipeline at its return
web_locals_of(run, llm) ==
    [urls_to_scrape |-> run.urls_to_scrape, down |-> run.down,
     scraped_recipes |-> run.scraped_recipes, collections |-> run.collections,
     actual_recipes |-> run.actual_recipes, fetches |-> run.fetches, llm |-> llm]

\* the HTTPException chat raises when the pipeline raised (main.py, lines 304-306)
http_error == [status_code |-> 500, detail |-> "embed_content failed"]

PipelineInit ==
    /\ pc = "idle"
    /\ user_query = <<>>
    /\ preferences = NoPreferences
    /\ search_query = <<>>
    /\ rag_locals = NoLocals
    /\ rag_result = NoRagResult
    /\ web_locals = NoWebLocals
    /\ web_result = skipped_web_result
    /\ answer = NoAnswer
    /\ response = mcp_response(NoAnswer)
    /\ web_searches = 0
    /\ page_fetches = 0

Init == PipelineInit /\ unit = NoUnit

\* chat -> mcp_process_query -> process_query is entered with a request and
\* builds its search query
ReceiveQuery ==
    /\ pc = "idle"
    /\ \E q \in Queries, p \in PrefsSet :
          /\ user_query' = q
          /\ preferences' = p
          /\ search_query' = build_search_query(q, p)
    /\ pc' = "rag"
    /\ UNCHANGED <<rag_locals, rag_result, web_locals, web_result, answer, response, web_searches, page_fetches, unit>>

\* process_query step 1: rag_result = self._process_rag_pipeline(search_query, ...)
RagPipeline ==
    /\ pc = "rag"
    /\ \E r \in rag_runs_of(search_query, preferences) :
          \E llm \in llm_worlds_of(r.valid_results # <<>>) :
             /\ rag_result' = rag_result_of(r, llm)
             /\ rag_locals' = rag_locals_of(r, llm)
    /\ pc' = "fallback"
    /\ UNCHANGED <<user_query, preferences, search_query, web_locals, web_result, answer, response,
                   web_searches, page_fetches, unit>>

\* process_query step 1 when embed_query raises in search_recipes: nothing catches it in
\* _process_rag_pipeline, process_query or mcp_process_query, and chat answers HTTP 500
EmbeddingFails ==
    /\ pc = "rag"
    /\ rag_locals' = [NoLocals EXCEPT !.embedding = "raised"]
    /\ response' = http_error
    /\ pc' = "failed"
    /\ UNCHANGED <<user_query, preferences, search_query, rag_result, web_locals, web_result, answer,
                   web_searches, page_fetches, unit>>

\* process_query step 2, `if not rag_result["has_results"]`: the web fallback runs
WebFallback ==
    /\ pc = "fallback"
    /\ needs_web_fallback(rag_result)
    /\ \E r \in WebRuns :
          \E llm \in llm_worlds_of(r.recipes # <<>>) :
             /\ web_result' = web_result_of(r, llm)
             /\ web_locals' = web_locals_of(r, llm)
             /\ page_fetches' = page_fetches + Len(r.fetches)
    /\ web_searches' = web_searches + 1
    /\ rag_locals' = NoLocals
    /\ pc' = "combine"
    /\ UNCHANGED <<user_query, preferences, search_query, rag_result, answer, response, unit>>

\* process_query step 2, else branch: the web search is skipped
SkipWeb ==
    /\ pc = "fallback"
    /\ ~needs_web_fallback(rag_result)
    /\ web_result' = skipped_web_result
    /\ rag_locals' = NoLocals
    /\ pc' = "combine"
    /\ UNCHANGED <<user_query, preferences, search_query, rag_result, web_locals, answer, response,
                   web_searches, page_fetches, unit>>

\* process_query step 3: return self._combine_results(query, rag_result, web_result)
CombineResults ==
    /\ pc = "combine"
    /\ answer' = combine_results(rag_result, web_result)
    /\ web_locals' = NoWebLocals
    /\ pc' = "respond"
    /\ UNCHANGED <<user_query, preferences, search_query, rag_locals, rag_result, web_result, response,
                   web_searches, page_fetches, unit>>

\* mcp_process_query builds the response from the orchestrator's result
Respond ==
    /\ pc = "respond"
    /\ response' = mcp_response(answer)
    /\ pc' = "done"
    /\ UNCHANGED <<user_query, preferences, search_query, rag_locals, rag_result, web_locals, web_result,
                   answer, web_searches, page_fetches, unit>>

Next ==
    \/ ReceiveQuery
    \/ RagPipeline
    \/ EmbeddingFails
    \/ WebFallback
    \/ SkipWeb
    \/ CombineResults
    \/ Respond

Spec == Init /\ [][Next]_vars

(***************************************************************************)
(* The collection classifiers called on their own on a title and a URL.    *)
(***************************************************************************)
MaxCalls == 3

ClassifierTitles ==
    {<<"21", "Easy", "Vegan", "Snacks">>, <<"Garlic", "Lamb", "Curry", "Recipe">>,
     <<"56", "Vegan", "Snacks">>, <<"Best", "Lamb", "Recipes">>, <<"Paneer">>,
     <<"Our", "10", "Favorite", "Lamb", "Dishes">>, <<"Quick", "Tofu", "Noodle", "Bowl">>,
     <<"Easy", "Vegetable", "Curry", "For", "Two">>, <<"Top", "Lamb", "Ideas">>, <<>>}

ClassifierUrls == {"", "site/collections/snacks", "Site/Ideas/Dinner", "db/lamb-curry"}

ClassifyInit ==
    /\ PipelineInit
    /\ unit \in [title : ClassifierTitles, url : ClassifierUrls, calls : {<<>>}]

\* the calls of a unit with one more call of a classifier and its result
with_call(u, name, result) ==
    [u EXCEPT !.calls = Append(@, [classifier |-> name, result |-> result])]

\* the variables of the query pipeline
pipeline_vars ==
    <<pc, user_query, preferences, search_query, rag_locals, rag_result, web_locals, web_result,
      answer, response, web_searches, page_fetches>>

\* the collection check of the corpus path (lines 249-264)
ClassifyCorpusCandidate ==
    /\ Len(unit.calls) < MaxCalls
    /\ unit' = with_call(unit, "corpus", rag_is_collection(unit.title))
    /\ UNCHANGED pipeline_vars

\* the collection check of the scraped pages (lines 685-726)
ClassifyScrapedPage ==
    /\ Len(unit.calls) < MaxCalls
    /\ unit' = with_call(unit, "web", web_is_collection(unit.title))
    /\ UNCHANGED pipeline_vars

\* is_collection_title(title) (lines 751-782)
ClassifyChildTitle ==
    /\ Len(unit.calls) < MaxCalls
    /\ unit' = with_call(unit, "is_collection_title", is_collection_title(unit.title))
    /\ UNCHANGED pipeline_vars

\* is_collection_page(title, url) of clean_collection_pages
ClassifyStoredPage ==
    /\ Len(unit.calls) < MaxCalls
    /\ unit' = with_call(unit, "is_collection_page", is_collection_page(unit.title, unit.url))
    /\ UNCHANGED pipeline_vars

ClassifyNext ==
    \/ ClassifyCorpusCandidate
    \/ ClassifyScrapedPage
    \/ ClassifyChildTitle
    \/ ClassifyStoredPage

ClassifySpec == ClassifyInit /\ [][ClassifyNext]_vars

(***************************************************************************)
(* _check_dietary_compatibility on its own: the calls of the tests and of  *)
(* the corpus path.                                                        *)
(***************************************************************************)
\* titles as the tests and the scraped pages give them, and as the index stores them
DietTitles ==
    {<<"Chicken", "Tikka">>, <<"Vegetable", "Curry">>, <<"Vegetable", "Fried", "Rice">>,
     <<"Cauliflower", "Rice", "Bowl">>, <<"Quick", "Tofu", "Noodle", "Bowl">>,
     <<"Butter", "Chicken", "Curry">>, <<"paleo", "salad">>, <<"chicken", "stew">>}

\* ingredient texts (the ingredients joined by spaces)
DietIngredients ==
    {<<"chicken", "yogurt", "onion">>, <<"potato", "peas", "tomato">>, <<"rice", "vegetable", "soy">>,
     <<"cauliflower", "onion">>, <<"pasta", "cream", "cheese">>, <<"Chicken", "Rice">>,
     <<"lettuce", "lemon">>, <<"tofu", "noodle">>}

\* the diets of UserPreferences.diets
DietNames ==
    {"Non-Vegetarian", "Vegetarian", "Vegan", "Low Carb", "Keto", "Gluten Free", "Dairy Free", "Paleo"}

\* diet lists: none, one diet, two distinct diets in both orders, and the list of test_multiple_diets
DietLists ==
    {<<>>, <<"Non-Vegetarian", "Gluten Free", "Dairy Free">>}
    \cup {<<d>> : d \in DietNames}
    \cup {p \in DietNames \X DietNames : p[1] # p[2]}

\* diet_preferences in the opposite order
Reversed(diets) == [i \in 1..Len(diets) |-> diets[Len(diets) + 1 - i]]

DietInit ==
    /\ PipelineInit
    /\ unit \in [title : DietTitles, ingredients : DietIngredients, diets : DietLists,
                  direct : {<<>>}, lowered : {<<>>}, reordered : {<<>>}]

\* _check_dietary_compatibility(title, ingredients, diet_preferences) as the tests call it
CheckDietDirect ==
    /\ unit.direct = <<>>
    /\ unit' = [unit EXCEPT !.direct =
                    <<check_dietary_compatibility(unit.title, unit.ingredients, unit.diets)>>]
    /\ UNCHANGED pipeline_vars

\* the call of _process_rag_pipeline (lines 280-289): title and ingredients lower-cased
CheckDietLowered ==
    /\ unit.lowered = <<>>
    /\ unit' = [unit EXCEPT !.lowered =
                    <<check_dietary_compatibility(Lower(unit.title), Lower(unit.ingredients), unit.diets)>>]
    /\ UNCHANGED pipeline_vars

\* the same call with the diets listed in the opposite order
CheckDietReordered ==
    /\ unit.reordered = <<>>
    /\ unit' = [unit EXCEPT !.reordered =
                    <<check_dietary_compatibility(unit.title, unit.ingredients, Reversed(unit.diets))>>]
    /\ UNCHANGED pipeline_vars

DietNext ==
    \/ CheckDietDirect
    \/ CheckDietLowered
    \/ CheckDietReordered

DietSpec == DietInit /\ [][DietNext]_vars

(***************************************************************************)
(* RecipeRAGEngine._extract_key_terms on its own.                          *)
(***************************************************************************)
\* the whitespace-separated tokens of the queries
QueryTokens == {"Chicken,", "chicken!", "chicken?", "chicken", "curry?", "Tofu", "the", "to"}

\* the queries of at most MaxQueryLen tokens
TokenQueries == UNION {[1..n -> QueryTokens] : n \in 0..MaxQueryLen}

ExtractInit ==
    /\ PipelineInit
    /\ unit \in [query : TokenQueries, extracted : {<<>>}]

\* _extract_key_terms(query)
ExtractKeyTerms ==
    /\ unit.extracted = <<>>
    /\ unit' = [unit EXCEPT !.extracted = <<extract_key_terms(unit.query)>>]
    /\ UNCHANGED pipeline_vars

ExtractNext == ExtractKeyTerms

ExtractSpec == ExtractInit /\ [][ExtractNext]_vars

(***************************************************************************)
(* generate_embedding of scripts/generate_embeddings.py: the retry loop.   *)
(***************************************************************************)
\* wait_time = (attempt + 1) * 2 (line 97)
wait_time(attempt) == (attempt + 1) * 2

\* a call of generate_embedding(text, max_retries) before its loop; answers[k] tells
\* whether the k-th call of genai.embed_content would succeed
EmbedInit ==
    /\ PipelineInit
    /\ unit \in [max_retries : 0..RetryCap, answers : [1..RetryCap -> BOOLEAN],
                  attempt : {0}, calls : {0}, waits : {<<>>}, outcome : {"running"}]

\* genai.embed_content succeeds: return result["embedding"] (lines 88-93)
EmbedContentSucceeds ==
    /\ unit.outcome = "running"
    /\ unit.attempt < unit.max_retries
    /\ unit.answers[unit.attempt + 1]
    /\ unit' = [unit EXCEPT !.calls = @ + 1, !.outcome = "returned"]
    /\ UNCHANGED pipeline_vars

\* genai.embed_content raises before the last attempt: sleep, then the next attempt (lines 95-99)
EmbedContentFailsRetry ==
    /\ unit.outcome = "running"
    /\ unit.attempt < unit.max_retries - 1
    /\ ~unit.answers[unit.attempt + 1]
    /\ unit' = [unit EXCEPT !.calls = @ + 1,
                            !.waits = Append(@, wait_time(unit.attempt)),
                            !.attempt = @ + 1]
    /\ UNCHANGED pipeline_vars

\* genai.embed_content raises at the last attempt: raise e (lines 100-101)
EmbedContentFailsRaise ==
    /\ unit.outcome = "running"
    /\ unit.max_retries >= 1
    /\ unit.attempt = unit.max_retries - 1
    /\ ~unit.answers[unit.attempt + 1]
    /\ unit' = [unit EXCEPT !.calls = @ + 1, !.outcome = "raised"]
    /\ UNCHANGED pipeline_vars

\* range(max_retries) is empty: the function falls off its end and returns None
EmbedLoopEmpty ==
    /\ unit.outcome = "running"
    /\ unit.max_retries = 0
    /\ unit' = [unit EXCEPT !.outcome = "returned None"]
    /\ UNCHANGED pipeline_vars

EmbedNext ==
    \/ EmbedContentSucceeds
    \/ EmbedContentFailsRetry
    \/ EmbedContentFailsRaise
    \/ EmbedLoopEmpty

EmbedSpec == EmbedInit /\ [][EmbedNext]_vars

(***************************************************************************)
(* Properties.                                                             *)
(***************************************************************************)
\* the query was answered: process_query and mcp_process_query have returned
Answered == pc = "done"

\* the corpus path has returned and process_query has not yet moved on
CorpusPathReturned == pc = "fallback"

\* a recipe of the final answer passes the dietary check for the request's diets
CardDietOk(card) ==
    check_dietary_compatibility(Lower(card.title), Lower(Flatten(card.ingredients)),
                                preferences.diets)

\* C1: the recipe list of the final answer never has more than 3 entries,
\* whether it is the corpus path's list, the web pipeline's list, the list of
\* process_query's result or the list mcp_process_query hands to chat
ResultCap ==
    /\ Len(rag_result.results) <= 3
    /\ Len(web_result.recipes) <= 3
    /\ Len(answer.recipes) <= 3
    /\ pc # "failed" => Len(response.recipes) <= 3

\* the corpus path accepted more than three candidates and returned three
ResultCapWitness ==
    /\ CorpusPathReturned
    /\ Len(rag_locals.valid_results) > 3
    /\ Len(rag_result.results) = 3

\* C2: when the query names a protein, every recipe of the final answer
\* has that protein in its title or in its ingredients
ProteinFidelity ==
    (Answered /\ requested_protein_of(user_query) # "")
        => \A i \in 1..Len(response.recipes) :
              has_protein(requested_protein_of(user_query), response.recipes[i])

\* C3: when the query names a protein and no accepted corpus candidate has
\* it, the corpus path reports has_results = FALSE with an empty list, and the
\* next step of process_query is the web fallback
NoProteinNoResults ==
    [][(/\ CorpusPathReturned
        /\ requested_protein_of(search_query) # ""
        /\ \A i \in 1..Len(rag_locals.valid_results) :
              ~has_protein(requested_protein_of(search_query), Doc(rag_locals.valid_results[i].id)))
       => (/\ ~rag_result.has_results
           /\ rag_result.results = <<>>
           /\ web_searches' = web_searches + 1)]_vars

\* candidates were accepted, none has the protein of the query, and the corpus
\* path reported no results
NoProteinNoResultsWitness ==
    /\ CorpusPathReturned
    /\ requested_protein_of(search_query) # ""
    /\ rag_locals.valid_results # <<>>
    /\ \A i \in 1..Len(rag_locals.valid_results) :
          ~has_protein(requested_protein_of(search_query), Doc(rag_locals.valid_results[i].id))
    /\ ~rag_result.has_results

\* C4: once process_query is past the fallback decision, the web pipeline
\* has run exactly when the corpus path returned no recipe; when the corpus
\* path returned a recipe there was no web search and no page fetch
WebFallbackIffNoCorpusResults ==
    /\ web_searches \in {0, 1}
    /\ pc \in {"combine", "respond", "done"}
          => /\ (web_searches = 1) <=> (rag_result.results = <<>>)
             /\ rag_result.results # <<>> => (web_searches = 0 /\ page_fetches = 0)
    /\ pc \in {"idle", "rag", "fallback"} => (web_searches = 0 /\ page_fetches = 0)

\* a query answered from the corpus, without web search or page fetch
WebFallbackSkippedWitness ==
    /\ Answered
    /\ rag_result.results # <<>>
    /\ web_searches = 0
    /\ page_fetches = 0

\* C5: the combiner's outcome is "database" whenever the corpus path has
\* recipes, otherwise "internet" whenever the web pipeline has results,
\* otherwise "none" with an empty recipe list and the refinement guidance
CombinerOutcome ==
    pc \in {"respond", "done"}
        => /\ answer.primary_source \in {"database", "internet", "none"}
           /\ rag_result.results # <<>> => answer.primary_source = "database"
           /\ (rag_result.results = <<>> /\ web_result.recipes # <<>>)
                 => answer.primary_source = "internet"
           /\ (rag_result.results = <<>> /\ web_result.recipes = <<>>)
                 => /\ answer.primary_source = "none"
                    /\ answer.recipes = <<>>
                    /\ response.recipes = <<>>
                    /\ answer.message = NoResultsMessage

\* the web fallback ran, found nothing, and the answer is the no-results one
CombinerNoneWitness ==
    /\ Answered
    /\ web_searches = 1
    /\ answer.primary_source = "none"
    /\ answer.message = NoResultsMessage

\* C6: when the web fallback is the chosen source, the recipes field of
\* process_query's result holds the web pipeline's recipes and is not empty
WebRecipesInAnswer ==
    (pc \in {"respond", "done"} /\ answer.primary_source = "internet")
        => (answer.recipes = web_result.recipes /\ answer.recipes # <<>>)

\* C7: every candidate's score, after the keyword boost and after the
\* servings, skill and protein boosts, lies between 0 and 1 (0..100 hundredths)
ScoreInUnitInterval ==
    /\ \A i \in 1..Len(rag_locals.rag_results) :
          rag_locals.rag_results[i].score \in 0..100
    /\ \A i \in 1..Len(rag_result.results) : rag_result.results[i].score \in 0..100

\* one candidate sits at the lower end and one at the upper end of the interval
ScoreInUnitIntervalWitness ==
    /\ CorpusPathReturned
    /\ \E i \in 1..Len(rag_locals.rag_results) : rag_locals.rag_results[i].score = 0
    /\ \E i \in 1..Len(rag_locals.rag_results) : rag_locals.rag_results[i].score = 100

\* C8: there is a secondary threshold below the primary one such that a
\* candidate that is no collection and passes the dietary gate is accepted
\* exactly when its final score reaches the primary threshold, or its
\* keyword flag is set and its final score reaches the secondary threshold
AcceptanceRule ==
    CorpusPathReturned
        => \E secondary \in 0..(similarity_threshold - 1) :
              \A i \in 1..Len(rag_locals.rag_results) :
                 rag_locals.outcome[i] \in {"accepted", "rejected"}
                    => ((rag_locals.outcome[i] = "accepted")
                          <=> (\/ rag_locals.rag_results[i].score >= similarity_threshold
                               \/ /\ rag_locals.rag_results[i].keyword_match
                                  /\ rag_locals.rag_results[i].score >= secondary))

\* C9: with diet preferences, no candidate that fails the dietary check is
\* among the accepted results of the corpus path
DietGateHardReject ==
    HasDiets(preferences)
        => /\ \A i \in 1..Len(rag_locals.valid_results) :
                 CardDietOk(database_card(rag_locals.valid_results[i]))
           /\ \A i \in 1..Len(rag_result.results) :
                 CardDietOk(database_card(rag_result.results[i]))

\* a candidate whose score reaches the threshold was skipped by the dietary gate
DietGateHardRejectWitness ==
    /\ CorpusPathReturned
    /\ HasDiets(preferences)
    /\ \E i \in 1..Len(rag_locals.rag_results) :
          /\ rag_locals.outcome[i] = "diet"
          /\ rag_locals.rag_results[i].score >= similarity_threshold
          /\ ~CardDietOk(database_card(rag_locals.rag_results[i]))

\* C10: with diet preferences, every recipe of the final answer passes the
\* dietary check for the requested diets, web recipes included
FinalAnswerDietSafe ==
    (Answered /\ HasDiets(preferences))
        => \A i \in 1..Len(response.recipes) : CardDietOk(response.recipes[i])

\* C11: every recipe of the final answer passes the recipe validator, whether
\* it comes from the corpus, from a directly scraped page or from a collection
FinalAnswerValidated ==
    Answered => \A i \in 1..Len(response.recipes) : is_valid_recipe(response.recipes[i])

\* C12: no two recipes of the final answer have the same content fingerprint,
\* that is the same title, ingredients and instructions
NoDuplicateRecipes ==
    pc \in {"respond", "done"}
        => /\ \A i, j \in 1..Len(answer.web_recipes) :
                 i < j => <<answer.web_recipes[i].title, answer.web_recipes[i].ingredients,
                            answer.web_recipes[i].steps>>
                          # <<answer.web_recipes[j].title, answer.web_recipes[j].ingredients,
                              answer.web_recipes[j].steps>>
           /\ \A i, j \in 1..Len(answer.rag_results) :
                 i < j => <<Doc(answer.rag_results[i].id).title, Doc(answer.rag_results[i].id).ingredients,
                            Doc(answer.rag_results[i].id).steps>>
                          # <<Doc(answer.rag_results[j].id).title, Doc(answer.rag_results[j].id).ingredients,
                              Doc(answer.rag_results[j].id).steps>>

\* C13: what the pipeline classifies as a collection page is not among the
\* accepted recipes of the same query: not a corpus candidate, not a scraped
\* page, not a child of a collection whose title is a collection title
CollectionNeverAccepted ==
    /\ \A i \in 1..Len(rag_locals.rag_results) :
          rag_is_collection(Doc(rag_locals.rag_results[i].id).title)
             => \A j \in 1..Len(rag_locals.valid_results) :
                   rag_locals.valid_results[j].id # rag_locals.rag_results[i].id
    /\ pc = "combine"
          => \A i \in 1..Len(web_result.recipes) :
                /\ web_result.recipes[i] \notin Range(web_locals.collections)
                /\ ~is_collection_title(web_result.recipes[i].title)

\* C14: every collection classifier of the code answers TRUE for the title
\* "21 Easy Vegan Snacks" with an empty URL and FALSE for "Garlic Lamb Curry
\* Recipe", and a classifier called again on the same input answers the same
ClassifiersAsStated ==
    \A i \in 1..Len(unit.calls) :
        /\ (unit.title = <<"21", "Easy", "Vegan", "Snacks">> /\ unit.url = "")
              => unit.calls[i].result
        /\ (unit.title = <<"Garlic", "Lamb", "Curry", "Recipe">> /\ unit.url = "")
              => ~unit.calls[i].result
        /\ \A j \in 1..Len(unit.calls) :
              unit.calls[i].classifier = unit.calls[j].classifier
                 => unit.calls[i].result = unit.calls[j].result

\* C15: when some of the URLs of the fetch step fail and others succeed, the
\* pages of the successful URLs are still scraped and classified, those that
\* are no collection are among the recipes, no failed URL gives a recipe, and
\* the query does not fail
PartialFetchTolerated ==
    /\ web_searches > 0 => pc # "failed"
    /\ pc = "combine"
          => /\ \A i \in 1..Len(web_locals.urls_to_scrape) :
                   (web_locals.urls_to_scrape[i] \notin web_locals.down
                    /\ Page(web_locals.urls_to_scrape[i]).parsed)
                      => \E j \in 1..Len(web_locals.scraped_recipes) :
                            /\ web_locals.scraped_recipes[j].source = web_locals.urls_to_scrape[i]
                            /\ web_locals.scraped_recipes[j].title = Page(web_locals.urls_to_scrape[i]).title
             /\ \A j \in 1..Len(web_locals.scraped_recipes) :
                   /\ web_locals.scraped_recipes[j].source \notin web_locals.down
                   /\ web_locals.scraped_recipes[j].title # CouldNotFetch
                   /\ ~web_is_collection(web_locals.scraped_recipes[j].title)
                         => web_locals.scraped_recipes[j] \in Range(web_locals.actual_recipes)
             /\ \A j \in 1..Len(web_locals.actual_recipes) :
                   /\ web_locals.actual_recipes[j].source \notin web_locals.down
                   /\ web_locals.actual_recipes[j].title # CouldNotFetch

\* five URLs were to be fetched, three of them timed out, and the web pipeline
\* returned the recipe of a page that was fetched
PartialFetchToleratedWitness ==
    /\ pc = "combine"
    /\ Len(web_locals.urls_to_scrape) = 5
    /\ Cardinality(Range(web_locals.urls_to_scrape) \cap web_locals.down) = 3
    /\ web_result.has_results
    /\ \E i \in 1..Len(web_result.recipes) :
          web_result.recipes[i].source \in Range(web_locals.urls_to_scrape) \ web_locals.down

\* C16: collection expansion is one level deep: every page fetched is a hit
\* of the search or a link of a hit that was classified as a collection, no
\* page below such a link is fetched, and no child with a collection title is
\* among the recipes
ExpansionOneLevel ==
    /\ \A i \in 1..Len(web_locals.fetches) :
          /\ web_locals.fetches[i].depth \in {0, 1}
          /\ web_locals.fetches[i].depth = 0
                => web_locals.fetches[i].url \in Range(web_locals.urls_to_scrape)
          /\ web_locals.fetches[i].depth = 1
                => \E j \in 1..Len(web_locals.collections) :
                      web_locals.fetches[i].url
                         \in Range(links_of(Page(web_locals.collections[j].source).items, 5))
    /\ \A i \in 1..Len(web_locals.actual_recipes) :
          ~is_collection_title(web_locals.actual_recipes[i].title)

\* a link of a collection was fetched, its page has a collection title and links
\* of its own, and none of those links was fetched
ExpansionOneLevelWitness ==
    /\ pc = "combine"
    /\ \E i \in 1..Len(web_locals.fetches) :
          /\ web_locals.fetches[i].depth = 1
          /\ is_collection_title(Page(web_locals.fetches[i].url).title)
          /\ links_of(Page(web_locals.fetches[i].url).items, 5) # <<>>
          /\ \A j \in 1..Len(web_locals.fetches) :
                web_locals.fetches[j].url
                   \notin Range(links_of(Page(web_locals.fetches[i].url).items, 5))

\* C17: the web pipeline reports has_results exactly when the recipe list it
\* returns is not empty, that is when a recipe survived among the scraped
\* pages and the expanded collections
WebHasResultsIffRecipes ==
    /\ web_result.has_results <=> web_result.recipes # <<>>
    /\ pc = "combine" => (web_result.has_results <=> web_locals.actual_recipes # <<>>)

\* pages were scraped, all of them were collections without a usable recipe, and
\* the web pipeline reported no results
WebHasResultsIffRecipesWitness ==
    /\ pc = "combine"
    /\ web_locals.scraped_recipes # <<>>
    /\ web_locals.actual_recipes = <<>>
    /\ ~web_result.has_results
    /\ web_result.recipes = <<>>

\* C18: when the embedding call of the corpus retrieval fails, the query does
\* not fail: the corpus path counts as having no results and process_query
\* goes on to the web fallback
EmbeddingFailureFallsBack ==
    /\ pc # "failed"
    /\ rag_locals.embedding = "raised"
          => (pc = "fallback" /\ ~rag_result.has_results /\ needs_web_fallback(rag_result))

\* C19: a failure of text generation is not fatal: whether a provider answers
\* or not, the pipelines return the recipes, the has_results flag and the
\* summary that follow from the candidates they accepted, the combiner decides
\* the source from those alone, and without an answer the facts are empty
TextGenerationNonFatal ==
    /\ CorpusPathReturned
          => /\ llm_failed(rag_locals.llm) => rag_result.facts = <<>>
             /\ rag_result.has_results
                  = rag_has_results(rag_locals.requested_protein, rag_locals.valid_results)
             /\ rag_result.results
                  = filtered_results(rag_has_results(rag_locals.requested_protein, rag_locals.valid_results),
                                     rag_locals.valid_results)
             /\ rag_result.summary = (IF rag_locals.valid_results # <<>> THEN "" ELSE "None")
    /\ (pc = "combine" /\ web_searches = 1)
          => /\ llm_failed(web_locals.llm) => web_result.facts = <<>>
             /\ web_result.has_results
                  = web_has_results(web_locals.urls_to_scrape # <<>>, web_locals.scraped_recipes,
                                    web_locals.actual_recipes)
             /\ web_result.recipes = Take(web_locals.actual_recipes, 3)
    /\ Answered
          => /\ answer.primary_source = primary_source(rag_result, web_result)
             /\ answer.rag_results = rag_result.results
             /\ answer.web_recipes = web_result.recipes
             /\ answer.facts \in {<<>>, rag_result.facts, web_result.facts}

\* both providers raised after the corpus path had accepted recipes, and the corpus
\* path returned them without facts
TextGenerationNonFatalWitness ==
    /\ CorpusPathReturned
    /\ rag_locals.llm = [groq |-> "raises", gemini |-> "raises"]
    /\ rag_result.has_results
    /\ rag_result.results # <<>>
    /\ rag_result.facts = <<>>

\* the place of a recipe id in the list search_recipes returned (0 when absent)
RetrievalRank(id) ==
    LET at == {i \in 1..Len(rag_locals.rag_results) : rag_locals.rag_results[i].id = id}
    IN IF at = {} THEN 0 ELSE CHOOSE i \in at : TRUE

\* a list of scored recipes is in non-increasing order of score, and recipes of
\* equal score stand in the order in which the retrieval returned them
InStableScoreOrder(recipes) ==
    \A k, l \in 1..Len(recipes) :
        k < l => /\ recipes[k].score >= recipes[l].score
                 /\ RetrievalRank(recipes[k].id) > 0
                 /\ RetrievalRank(recipes[l].id) > 0
                 /\ recipes[k].score = recipes[l].score
                       => RetrievalRank(recipes[k].id) < RetrievalRank(recipes[l].id)

\* C20: the recipes the corpus path returns are in non-increasing order of their
\* score after the boosts, two of them with equal score stand in the order of the
\* original retrieval results, and the final answer holds them in that order
StableScoreOrder ==
    /\ CorpusPathReturned => InStableScoreOrder(rag_result.results)
    /\ pc \in {"respond", "done"}
          => /\ answer.rag_results = rag_result.results
             /\ \A k, l \in 1..Len(answer.rag_results) :
                   k < l => answer.rag_results[k].score >= answer.rag_results[l].score

\* the corpus path returned two recipes of equal score after the boosts, and
\* the sort moved a recipe ahead of one the retrieval had ranked before it
StableScoreOrderWitness ==
    /\ CorpusPathReturned
    /\ \E k, l \in 1..Len(rag_result.results) :
          k < l /\ rag_result.results[k].score = rag_result.results[l].score
    /\ \E k, l \in 1..Len(rag_result.results) :
          /\ k < l
          /\ RetrievalRank(rag_result.results[k].id) > RetrievalRank(rag_result.results[l].id)

\* C21: every page the web path classified as a collection and did not resolve
\* into a recipe is in the collection_pages of the answer, also when the answer
\* holds no recipe at all (the expansion added nothing to the directly scraped recipes)
UnresolvedCollectionsReported ==
    [][(CombineResults /\ web_searches = 1
          /\ web_locals.actual_recipes = direct_recipes(web_locals.scraped_recipes))
         => \A i \in 1..Len(web_locals.collections) :
               [title |-> web_locals.collections[i].title, url |-> web_locals.collections[i].source]
                   \in Range(answer'.collection_pages)]_vars

UnitHas(terms) ==
    \E t \in terms : Contains(t, Lower(unit.title)) \/ Contains(t, Lower(unit.ingredients))

\* C23: with the diet list [Non-Vegetarian] the check returns true if and only if
\* the title or the ingredient text contains a meat or fish term, in any letter case
NonVegetarianRequiresMeat ==
    (unit.diets = <<"Non-Vegetarian">> /\ unit.direct # <<>>)
        => (unit.direct[1] <=> UnitHas(non_vegetarian_ingredients))

\* the check accepted a recipe whose only meat term is capitalised
NonVegetarianRequiresMeatWitness ==
    /\ unit.diets = <<"Non-Vegetarian">>
    /\ unit.direct = <<TRUE>>
    /\ ~has_meat_as_given(unit.title, unit.ingredients)

\* C24: with Vegetarian (or Vegan) in the diet list the check returns false for
\* every recipe whose title or ingredient text contains a term of the
\* non-vegetarian (or non-vegan) vocabulary, however the text is capitalised
BannedTermsRejected ==
    unit.direct # <<>>
        => /\ ("Vegetarian" \in Range(unit.diets) /\ UnitHas(non_vegetarian_ingredients))
                 => unit.direct[1] = FALSE
           /\ ("Vegan" \in Range(unit.diets) /\ UnitHas(non_vegan_ingredients))
                 => unit.direct[1] = FALSE

\* C25: with Low Carb or Keto as the only diet, a recipe whose title or
\* ingredients contain a high-carb staple is rejected unless its title marks it
\* as keto, low carb or cauliflower, and a recipe without such a staple is accepted
LowCarbOnlyRule ==
    (unit.diets \in {<<"Low Carb">>, <<"Keto">>} /\ unit.direct # <<>>)
        => (unit.direct[1]
               <=> ~(UnitHas(high_carb) /\ ~ContainsAny(low_carb_markers, Lower(unit.title))))

\* C26: with Non-Vegetarian and Low Carb (or Keto) listed together, in either
\* order, a recipe is accepted if and only if it contains a meat or fish term,
\* whatever carb staples it contains
NonVegLowCarbDependsOnMeat ==
    (\E c \in {"Low Carb", "Keto"} : unit.diets \in {<<"Non-Vegetarian", c>>, <<c, "Non-Vegetarian">>})
        => /\ unit.direct # <<>> => (unit.direct[1] <=> UnitHas(non_vegetarian_ingredients))
           /\ unit.reordered # <<>> => (unit.reordered[1] <=> UnitHas(non_vegetarian_ingredients))
           /\ unit.lowered # <<>> => (unit.lowered[1] <=> UnitHas(non_vegetarian_ingredients))

\* a meat dish with a high-carb staple was accepted under Non-Vegetarian and Low Carb
NonVegLowCarbWitness ==
    /\ unit.diets = <<"Non-Vegetarian", "Low Carb">>
    /\ unit.direct = <<TRUE>>
    /\ unit.reordered = <<TRUE>>
    /\ UnitHas(non_vegetarian_ingredients)
    /\ \E c \in high_carb : Contains(c, unit.ingredients)

\* the diets whose rule does not depend on the other listed diets
ContextFreeDiets ==
    {"Non-Vegetarian", "Vegetarian", "Vegan", "Gluten Free", "Dairy Free", "Paleo"}

\* the recipe of the unit passes the rule of one diet: the check with that diet alone
UnitPasses(diet) == check_dietary_compatibility(unit.title, unit.ingredients, <<diet>>)

\* C27: a recipe that fails the rule of one listed diet among Non-Vegetarian,
\* Vegetarian, Vegan, Gluten Free, Dairy Free and Paleo is rejected for the whole
\* list, whatever else is listed and in whatever order; a list of such diets
\* accepts exactly the recipes that pass every listed rule; the empty list accepts all
MultiDietConjunction ==
    unit.direct # <<>>
        => /\ unit.diets = <<>> => unit.direct[1]
           /\ \A d \in Range(unit.diets) \cap ContextFreeDiets : ~UnitPasses(d) => ~unit.direct[1]
           /\ Range(unit.diets) \subseteq ContextFreeDiets
                 => (unit.direct[1] <=> \A d \in Range(unit.diets) : UnitPasses(d))
           /\ unit.reordered # <<>> => unit.reordered[1] = unit.direct[1]

\* a recipe that passes the first listed diet and fails the second was rejected
\* in both orders
MultiDietConjunctionWitness ==
    /\ Len(unit.diets) = 2
    /\ Range(unit.diets) \subseteq ContextFreeDiets
    /\ UnitPasses(unit.diets[1])
    /\ ~UnitPasses(unit.diets[2])
    /\ unit.direct = <<FALSE>>
    /\ unit.reordered = <<FALSE>>

\* a token without its trailing punctuation
StripPunctuation(w) ==
    CASE w \in {"chicken,", "chicken!", "chicken?"} -> "chicken"
      [] w = "curry?" -> "curry"
      [] OTHER -> w

\* C28: the term extractor lower-cases every token and strips its trailing
\* punctuation before the filters, so 'Chicken,' and 'chicken!' yield the
\* ingredient term 'chicken'; the 'all' collection holds no stop word and no
\* duplicate, and every ingredient term is a member of 'all'
TermExtractorNormalises ==
    unit.extracted # <<>>
        => LET all == unit.extracted[1].all_terms
               ingredient == unit.extracted[1].ingredient_terms
           IN /\ \A i \in 1..Len(unit.query) :
                    StripPunctuation(LowerWord(unit.query[i])) \in common_ingredients
                        => StripPunctuation(LowerWord(unit.query[i])) \in Range(ingredient)
              /\ Range(all) \cap stop_words = {}
              /\ \A i, j \in 1..Len(all) : i # j => all[i] # all[j]
              /\ Range(ingredient) \subseteq Range(all)

\* C29: generate_embedding calls the provider at most max_retries times, returns
\* at the first successful call, waits between consecutive attempts with each
\* wait double the previous one, and raises after max_retries failed calls
EmbeddingRetryContract ==
    /\ unit.calls <= unit.max_retries
    /\ unit.outcome = "returned"
          => /\ unit.answers[unit.calls]
             /\ \A k \in 1..(unit.calls - 1) : ~unit.answers[k]
    /\ Len(unit.waits) = (IF unit.outcome = "running" \/ unit.calls = 0 THEN unit.calls ELSE unit.calls - 1)
    /\ \A k \in 2..Len(unit.waits) : unit.waits[k] = 2 * unit.waits[k - 1]
    /\ unit.outcome = "raised"
          => /\ unit.calls = unit.max_retries
             /\ \A k \in 1..unit.max_retries : ~unit.answers[k]
    /\ (unit.outcome # "running" /\ unit.max_retries >= 1
           /\ \A k \in 1..unit.max_retries : ~unit.answers[k])
          => unit.outcome = "raised"

\* the fetches of the expansion: those after the initial scrape of the search hits
ExpansionFetches ==
    SubSeq(web_locals.fetches, Len(web_locals.urls_to_scrape) + 1, Len(web_locals.fetches))

\* the collection pages the expansion fetched, in order
ExpandedCollections == SelectSeq(ExpansionFetches, LAMBDA f : f.depth = 0)

\* the recipes collected when the expansion of the first collection page is over
CollectedAfterFirst ==
    expand_collections(Take(collection_page_urls_of(web_locals.collections), 1),
                       direct_recipes(web_locals.scraped_recipes), web_locals.down).recipes

\* the fetch bounds of the web path: at most 5 search hits fetched, at most 2
\* collection pages expanded, at most 5 child pages per collection and none for
\* a rich-list collection
FetchCaps ==
    /\ Len(web_locals.urls_to_scrape) <= 5
    /\ \A i \in 1..Len(web_locals.urls_to_scrape) :
          web_locals.fetches[i] = [url |-> web_locals.urls_to_scrape[i], depth |-> 0]
    /\ Len(ExpandedCollections) <= 2
    /\ \A i \in 1..Len(ExpansionFetches) : ExpansionFetches[i].depth \in {0, 1}
    /\ \A i \in 1..(Len(ExpansionFetches) - 5) :
          \E j \in i..(i + 5) : ExpansionFetches[j].depth = 0
    /\ \A i \in 1..Len(ExpansionFetches) :
          (/\ ExpansionFetches[i].depth = 0
           /\ scrape_recipes_from_collection(ExpansionFetches[i].url, 5, web_locals.down).type
                 = "rich-itemlist")
              => (i = Len(ExpansionFetches) \/ ExpansionFetches[i + 1].depth = 0)
    /\ Len(web_locals.fetches) <= 5 + 2 * (1 + 5)
    /\ page_fetches = Len(web_locals.fetches)

\* C30 as stated: the fetch bounds hold and no collection page is expanded once
\* 3 individual recipes have been collected
FetchesBoundedStopAtThree ==
    (pc = "combine" /\ web_searches = 1)
        => /\ FetchCaps
           /\ Len(ExpandedCollections) >= 1
                 => Len(direct_recipes(web_locals.scraped_recipes)) < 3
           /\ Len(ExpandedCollections) >= 2 => Len(CollectedAfterFirst) < 3

\* C30: every run of the web path ends after at most 5 fetches of search hits,
\* at most 2 expanded collection pages and at most 5 child fetches per collection
\* (none for a rich-list collection), and a second collection page is expanded
\* only if the first gave no recipe or fewer than 3 recipes are collected after it
FetchesBounded ==
    (pc = "combine" /\ web_searches = 1)
        => /\ FetchCaps
           /\ Len(ExpandedCollections) >= 2
                 => \/ Len(CollectedAfterFirst) < 3
                    \/ scrape_recipes_from_collection(ExpandedCollections[1].url, 5,
                                                      web_locals.down).recipes = <<>>

\* the web path found two collection pages, the first gave recipes that brought
\* the collected recipes to 3, and the second was not expanded
FetchesBoundedWitness ==
    /\ pc = "combine"
    /\ web_searches = 1
    /\ Len(web_locals.collections) >= 2
    /\ Len(CollectedAfterFirst) >= 3
    /\ Len(ExpandedCollections) = 1
    /\ \E i \in 1..Len(ExpansionFetches) : ExpansionFetches[i].depth = 1

====
